---- MODULE Spec2Model ----
(***************************************************************************)
(* tea-effect: the Platform runtime (program / dispatch / updateLoop /     *)
(* subscriptionLoop / model$ / shutdown) and the Cmd / Sub message algebra *)
(* it consumes.  Fibers are modelled as processes that interleave at the   *)
(* yield points (`yield*`) of the generators.                              *)
(***************************************************************************)
EXTENDS Bags, FiniteSets, Integers, Sequences, TLC

VARIABLES
    app,          \* the application handed to program(): init / update / subscriptions
    given,        \* the commands handed to Cmd.batch when a command is run on its own
    modelRef,     \* SubscriptionRef holding the current model
    msgQueue,     \* Queue.unbounded<Msg>
    shutdownRef,  \* SubscriptionRef<boolean>
    updateFiber,  \* position and locals of the forked updateLoop
    cmdFibers,    \* one forked stream per command handed to processCmd
    subFiber,     \* position and locals of the forked subscriptionLoop
    activeSubs,   \* activations of subscriptions(model) currently running
    listeners,    \* fromCallback listeners registered and not yet disposed
    observers,    \* consumers of model$ (run / runWith)
    shutdownPc,   \* position of each caller of shutdown
    peer,         \* a second program created in the same process
    hook,         \* the useProgram hook of the component that owns the program
    hist          \* history: what was dispatched, enqueued, passed to update, written

vars == <<app, given, modelRef, msgQueue, shutdownRef, updateFiber, cmdFibers, subFiber,
          activeSubs, listeners, observers, shutdownPc, peer, hook, hist>>

-----------------------------------------------------------------------------
(* Bounds of the exploration *)

MaxDispatch == 2      \* calls of dispatch by the host
MaxSubEmits == 1      \* messages produced by subscriptions
MaxBatch == 3         \* commands handed to one Cmd.batch
MaxPeerDispatch == 1  \* calls of dispatch of the second program
MaxTicks == 2         \* messages produced by one interval subscription

-----------------------------------------------------------------------------
(* Sequences and bags *)

Last(s) == s[Len(s)]

RECURSIVE SeqToBag(_)
SeqToBag(s) ==
    IF s = << >> THEN EmptyBag ELSE SetToBag({Head(s)}) (+) SeqToBag(Tail(s))

IsPrefix(s, t) == Len(s) <= Len(t) /\ SubSeq(t, 1, Len(s)) = s

-----------------------------------------------------------------------------
(* Cmd / Sub: streams of messages *)

\* Cmd.none / Sub.none : Stream.empty
none == [tag |-> "empty"]

\* Cmd.of / Sub.of : Stream.make(msg)
of(msg) == [tag |-> "make", msgs |-> <<msg>>]

\* Sub.fromIterable
fromIterable(msgs) == [tag |-> "make", msgs |-> msgs]

\* Stream.mergeAll(cmds, { concurrency: 'unbounded' })
mergeAll(cmds) == [tag |-> "merge", kids |-> cmds]

\* The former Cmd.batch (Effect<Option<Msg>>): Effect.all, then the first Some wins
RECURSIVE FirstSome(_)
FirstSome(cmds) ==
    IF cmds = << >> THEN none
    ELSE IF Head(cmds).tag = "make" /\ Head(cmds).msgs # << >>
         THEN of(Head(Head(cmds).msgs))
         ELSE FirstSome(Tail(cmds))

batch_FirstWins(cmds) ==
    IF Len(cmds) = 0 THEN none
    ELSE IF Len(cmds) = 1 THEN cmds[1]
    ELSE FirstSome(cmds)

\* A batch without the shortcuts for the empty and the one-element array
batch_AlwaysMerge(cmds) == mergeAll(cmds)

\* Cmd.batch / Sub.batch
batch(cmds) ==
    IF Len(cmds) = 0 THEN none
    ELSE IF Len(cmds) = 1 THEN cmds[1]
    ELSE mergeAll(cmds)

\* Sub.interval(ms, msg): repeatEffect(succeed(msg)) on a spaced schedule
interval(msg) == [tag |-> "repeat", msg |-> msg]

\* Sub.fromCallback(register): Stream.async; emit.single(msg) on every event
fromCallback(msg) == [tag |-> "async", msg |-> msg]

\* Navigation.urlChanges(toMsg): Stream.async whose register emits the current
\* location at once (`initial`: that message is still to be delivered) and then
\* listens for popstate events, none of which occurs here
urlChanges(msg) == [tag |-> "urlChanges", msg |-> msg, initial |-> TRUE]

\* Task.succeed(a) / Task.fail(e): Effect.succeed, Effect.fail
succeed(a) == [tag |-> "succeed", a |-> a]

fail(e) == [tag |-> "fail", e |-> e]

\* An effect that has not completed and may never do: a request sent without a
\* timeout whose response does not arrive
pending == [tag |-> "pending"]

\* Cmd.fromEffect(effect): Stream.fromEffect, one message when the effect
\* succeeds, the failure of the effect otherwise
fromEffect(effect) == [tag |-> "effect", effect |-> effect]

\* A subscription with an error channel (Sub<Msg, E>) that fails with e
streamFail(e) == [tag |-> "fail", e |-> e]

\* A stream that has ended with the failure e
failed(e) == [tag |-> "failed", e |-> e]

\* A map that hands back the stream it was given
map_Unmapped(f, s) == s

\* Cmd.map(f)(cmd) / Sub.map(f)(sub): Stream.map(cmd, f)
map(f, s) == [tag |-> "map", f |-> f, kid |-> s]

\* The possible next emissions of a running stream: pairs <<msg, rest>>
RECURSIVE Emits(_)
Emits(s) ==
    CASE s.tag = "empty"  -> {}
      [] s.tag = "effect" -> IF s.effect.tag = "succeed" THEN {<<s.effect.a, none>>} ELSE {}
      [] s.tag = "fail"   -> {}
      [] s.tag = "failed" -> {}
      [] s.tag = "make"   -> IF s.msgs = << >> THEN {}
                             ELSE {<<Head(s.msgs), [s EXCEPT !.msgs = Tail(s.msgs)]>>}
      [] s.tag = "merge"  -> UNION { { <<e[1], [s EXCEPT !.kids[i] = e[2]]>> : e \in Emits(s.kids[i]) }
                                     : i \in 1..Len(s.kids) }
      [] s.tag = "repeat" -> {<<s.msg, s>>}
      [] s.tag = "async"  -> {<<s.msg, s>>}
      [] s.tag = "map"    -> { <<s.f[e[1]], [s EXCEPT !.kid = e[2]]>> : e \in Emits(s.kid) }
      [] s.tag = "urlChanges" -> IF s.initial THEN {<<s.msg, [s EXCEPT !.initial = FALSE]>>}
                                 ELSE {}

\* The failures a running stream can end with now
RECURSIVE Failure(_)
Failure(s) ==
    CASE s.tag = "effect" -> IF s.effect.tag = "fail" THEN {s.effect.e} ELSE {}
      [] s.tag = "fail"   -> {s.e}
      [] s.tag = "merge"  -> UNION {Failure(s.kids[i]) : i \in 1..Len(s.kids)}
      [] s.tag = "map"    -> Failure(s.kid)
      [] OTHER            -> {}

\* The stream is waiting for an effect that has not completed
RECURSIVE Pending(_)
Pending(s) ==
    CASE s.tag = "effect" -> s.effect.tag = "pending"
      [] s.tag = "merge"  -> \E i \in 1..Len(s.kids) : Pending(s.kids[i])
      [] s.tag = "map"    -> Pending(s.kid)
      [] OTHER            -> FALSE

\* All messages a finite stream emits when run alone (Stream.runCollect), as a bag
RECURSIVE Messages(_)
RECURSIVE MessagesOfAll(_)
Messages(s) ==
    CASE s.tag = "empty" -> EmptyBag
      [] s.tag = "effect" -> IF s.effect.tag = "succeed" THEN SetToBag({s.effect.a})
                             ELSE EmptyBag
      [] s.tag = "make"  -> SeqToBag(s.msgs)
      [] s.tag = "merge" -> MessagesOfAll(s.kids)
MessagesOfAll(cmds) ==
    IF cmds = << >> THEN EmptyBag ELSE Messages(Head(cmds)) (+) MessagesOfAll(Tail(cmds))

-----------------------------------------------------------------------------
(* The applications handed to program(): init, update, subscriptions.      *)
(* A model is an object; `id` is its identity (reference equality), so two *)
(* models with the same content built by two update calls are different.   *)
(*   counter  : tests/Platform.test.ts 8-24 (Increment, Set), plus a       *)
(*              message answered with `[model, Cmd.none]`, the same object,*)
(*              as the UserList example does (unnamed/part_001 322-325)    *)
(*   initcmd  : the same with init = [{count: 0}, Cmd.of(Set 42)],         *)
(*              tests/Platform.test.ts 86-89                               *)
(*   batch    : an update that answers one message with                    *)
(*              Cmd.batch([Cmd.of(A), Cmd.of(B)]) (tests/Cmd.test.ts 48-52)*)
(*   ticker   : subscriptions = model.on ? timer : Sub.none, the timer of  *)
(*              README.md 252-255 and 264-268; a Tick switches it off      *)
(*   listener : subscriptions = Sub.fromCallback(...) that registers a     *)
(*              listener and returns its remover, README.md 258-262        *)
(*   failing  : the counter with an initial command whose effect fails and *)
(*              is not converted to a message: Cmd.fromEffect(Task.fail(e))*)
(*   brokensub: the counter with a subscription that fails                 *)
(*   hanging  : the counter with an initial command that never completes:  *)
(*              an Http.send whose response never arrives                  *)
(*   flags    : the counter built by programWithFlags from                *)
(*              { startValue } (tests/Platform.test.ts 124-149)            *)
(*   users    : update answers Fetch with the command fetchUsersCmd, a      *)
(*              value built once, and subscriptions returns keyboardSub, a  *)
(*              fromCallback value built once (unnamed/part_003 109-149)    *)
(*   view     : the counter of tests/React.test.ts 8-27 built by             *)
(*              Html.program with a view; the host drains html$             *)
(*   throwing : the counter with an update that throws on one message        *)
(*   nav      : the Navigation example (README.md 372-385): subscriptions is *)
(*              always Navigation.urlChanges(UrlChanged), update answers     *)
(*              UrlChanged with { ...model, route }, a new object            *)
(*   task     : an application whose initial command is built by the Task  *)
(*              bridge (tests/Sub.test.ts 345-411); its messages are       *)
(*              objects { type, ... }                                      *)

Apps == {"counter", "initcmd", "batch", "ticker", "listener", "failing", "brokensub"}


SetValue == 42

\* const fetchUsersCmd = ...: one command value, returned by every Fetch
fetchUsersCmd == fromEffect(succeed("Fetched"))

\* const keyboardSub = Sub.fromCallback(...): one subscription value
keyboardSub == fromCallback("Ev")

Model(count, on, id) == [count |-> count, on |-> on, id |-> id]

NoModel == Model(0, FALSE, -1)

\* init = [initialModel, initialCmd]
init(a) ==
    << Model(0, a = "ticker", 0),
       IF a = "initcmd" THEN of("Set")
       ELSE IF a = "failing" THEN fromEffect(fail("boom"))
       ELSE IF a = "hanging" THEN fromEffect(pending)
       ELSE IF a = "users" THEN fetchUsersCmd
       ELSE none >>

\* update(msg, model) = [newModel, cmd]; fresh is the identity of an object it allocates
update(a, msg, model, fresh) ==
    IF a = "task"
    THEN << Model(IF msg.type = "Reset" THEN 0 ELSE model.count + 1, model.on, fresh), none >>
    ELSE IF a = "users" /\ msg = "Fetch"
    THEN << Model(model.count, TRUE, fresh), fetchUsersCmd >>
    ELSE
    CASE msg = "Inc"  -> << Model(model.count + 1, model.on, fresh), none >>
      [] msg = "Set"  -> << Model(SetValue, model.on, fresh), none >>
      [] msg = "Noop" -> << model, none >>
      [] msg = "Go"   -> IF model.on THEN << model, none >>
                         ELSE << Model(model.count, TRUE, fresh), batch(<< of("A"), of("B") >>) >>
      [] msg = "A"    -> << Model(2 * model.count + 1, model.on, fresh), none >>
      [] msg = "B"    -> << Model(2 * model.count + 2, model.on, fresh), none >>
      [] msg = "Tick" -> << Model(model.count + 1, FALSE, fresh), none >>
      [] msg = "Ev"   -> << Model(model.count + 1, model.on, fresh), none >>
      [] msg = "Fetched" -> << Model(model.count + 1, FALSE, fresh), none >>
      [] msg = "UrlChanged" -> << Model(model.count, model.on, fresh), none >>

\* update(msg, model) throws instead of returning
Throws(a, msg) == a = "throwing" /\ msg = "Boom"

\* subscriptions(model)
subscriptions(a, model) ==
    IF a = "ticker" /\ model.on THEN interval("Tick")
    ELSE IF a = "listener" THEN fromCallback("Ev")
    ELSE IF a = "users" THEN keyboardSub
    ELSE IF a = "brokensub" THEN streamFail("boom")
    ELSE IF a = "nav" THEN urlChanges("UrlChanged")
    ELSE none

\* The messages the host dispatches to each application
Dispatchable(a) ==
    CASE a = "counter"  -> {"Inc", "Set", "Noop"}
      [] a = "initcmd"  -> {"Inc"}
      [] a = "batch"    -> {"Go"}
      [] a = "ticker"   -> {"Inc"}
      [] a = "listener" -> {"Noop"}
      [] a = "failing"  -> {"Inc"}
      [] a = "brokensub" -> {"Inc"}
      [] a = "hanging"  -> {"Inc"}
      [] a = "flags"    -> {"Inc"}
      [] a = "users"    -> {"Fetch"}
      [] a = "view"     -> {"Inc"}
      [] a = "throwing" -> {"Boom", "Inc"}
      [] a = "task"     -> {[type |-> "Reset"]}

\* The consumers the host starts: a forked runWith(onModel) drain of model$, or
\* a forked runWith(renderer) drain of html$
Observers(a) ==
    IF a \in {"counter", "initcmd", "failing", "flags", "throwing"} THEN {"runWith"}
    ELSE IF a = "view" THEN {"html"}
    ELSE {}

\* The callers of program.shutdown the host starts; two of them run the effect
\* twice, one after the other or at the same time
Callers(a) == IF a = "listener" THEN {1, 2} ELSE {1}

\* foldl update m0 msgs, the objects numbered in allocation order
RECURSIVE Foldl(_, _, _, _)
Foldl(a, model, msgs, fresh) ==
    IF msgs = << >> THEN model
    ELSE Foldl(a, update(a, Head(msgs), model, fresh)[1], Tail(msgs), fresh + 1)

-----------------------------------------------------------------------------
(* program(init, update, subscriptions)                                    *)

\* An element of msgQueue: the message, who offered it, and its arrival number
Entry(msg, src, from, n) == [msg |-> msg, src |-> src, from |-> from, n |-> n]

NoEntry == Entry("-", "-", -1, 0)

\* The locals of the updateLoop generator
UpdLocals(pc, msg, currentModel, newModel, cmd) ==
    [pc |-> pc, msg |-> msg, currentModel |-> currentModel, newModel |-> newModel, cmd |-> cmd]

\* No second program has been created
NoPeer == [pc |-> "absent"]

\* The program is not owned by a component
NoHook == [pc |-> "absent"]

Init ==
    /\ app \in Apps
    /\ given = << >>
    /\ modelRef = init(app)[1]
    /\ msgQueue = << >>
    /\ shutdownRef = FALSE
    /\ cmdFibers = << init(app)[2] >>
    /\ updateFiber = UpdLocals("check", NoEntry, NoModel, NoModel, none)
    /\ subFiber = [pc |-> "forked", inbox |-> << >>, last |-> NoModel, pending |-> NoModel]
    /\ activeSubs = {}
    /\ listeners = 0
    /\ observers = [o \in Observers(app) |->
                      [status |-> "idle", inbox |-> << >>, received |-> << >>, since |-> 0]]
    /\ shutdownPc = [c \in Callers(app) |-> "idle"]
    /\ peer = NoPeer
    /\ hook = NoHook
    /\ hist = [dispatched |-> << >>, enqueued |-> << >>, calls |-> << >>,
               cell |-> << init(app)[1] >>, handed |-> << init(app)[2] >>, subLog |-> << >>,
               registered |-> {}, disposed |-> EmptyBag, closedAt |-> -1, subFailedAt |-> -1]

\* An offer to a queue that drops the message when one is already waiting
Offer_Dropping(msg, src, from) ==
    LET e == Entry(msg, src, from, Len(hist.enqueued) + 1)
    IN  /\ msgQueue' = IF msgQueue = << >> THEN << e >> ELSE msgQueue
        /\ hist' = [hist EXCEPT !.enqueued = IF msgQueue = << >> THEN Append(@, e) ELSE @,
                                !.dispatched = IF src = "dispatch" THEN Append(@, msg) ELSE @]

\* Queue.offer(msgQueue, msg)
Offer(msg, src, from) ==
    LET e == Entry(msg, src, from, Len(hist.enqueued) + 1)
    IN  /\ msgQueue' = Append(msgQueue, e)
        /\ hist' = [hist EXCEPT !.enqueued = Append(@, e),
                                !.dispatched = IF src = "dispatch" THEN Append(@, msg) ELSE @]

\* A dispatch that applies update to the cell itself, inside the call
dispatch_Inline(msg) ==
    /\ Len(hist.dispatched) < MaxDispatch
    /\ modelRef' = update(app, msg, modelRef, Len(hist.cell))[1]
    /\ hist' = [hist EXCEPT !.dispatched = Append(@, msg)]
    /\ UNCHANGED <<app, given, peer, hook, msgQueue, shutdownRef, updateFiber, cmdFibers, subFiber,
                   activeSubs, listeners, observers, shutdownPc>>

\* A dispatch that forks the offer (Effect.runFork) and returns before it ran
dispatch_RunFork(msg) ==
    /\ Len(hist.dispatched) < MaxDispatch
    /\ cmdFibers' = Append(cmdFibers, of(msg))
    /\ hist' = [hist EXCEPT !.dispatched = Append(@, msg)]
    /\ UNCHANGED <<app, given, peer, hook, modelRef, msgQueue, shutdownRef, updateFiber, subFiber,
                   activeSubs, listeners, observers, shutdownPc>>

\* dispatch(msg): Effect.runSync(Queue.offer(msgQueue, msg))
dispatch(msg) ==
    /\ Len(hist.dispatched) < MaxDispatch
    /\ Offer(msg, "dispatch", -1)
    /\ UNCHANGED <<app, given, peer, hook, modelRef, shutdownRef, updateFiber, cmdFibers, subFiber,
                   activeSubs, listeners, observers, shutdownPc>>

\* The fiber forked by processCmd: Stream.runForEach(msg => Queue.offer(msgQueue, msg))
CmdFiberStep(i) ==
    /\ \E e \in Emits(cmdFibers[i]) :
          /\ Offer(e[1], "cmd", -1)
          /\ cmdFibers' = [cmdFibers EXCEPT ![i] = e[2]]
    /\ UNCHANGED <<app, given, peer, hook, modelRef, shutdownRef, updateFiber, subFiber,
                   activeSubs, listeners, observers, shutdownPc>>

\* The fiber forked by processCmd ends with the failure of its stream; nothing
\* joins or observes the forked fiber
CmdFiberFail(i) ==
    /\ \E e \in Failure(cmdFibers[i]) :
          cmdFibers' = [cmdFibers EXCEPT ![i] = failed(e)]
    /\ UNCHANGED <<app, given, peer, hook, modelRef, msgQueue, shutdownRef, updateFiber, subFiber,
                   activeSubs, listeners, observers, shutdownPc, hist>>

\* A subscriber that only keeps the latest value (a polled cell)
Published_Latest(inbox, subscribed, m) == IF subscribed THEN << m >> ELSE inbox

\* SubscriptionRef.set(modelRef, m) publishes m to every subscriber of modelRef.changes
Published(inbox, subscribed, m) == IF subscribed THEN Append(inbox, m) ELSE inbox

Publish(m) ==
    /\ subFiber' = [subFiber EXCEPT
                      !.inbox = Published(@, subFiber.pc \notin {"unforked", "forked", "interrupted", "failed"}, m)]
    /\ observers' = [o \in DOMAIN observers |->
                      [observers[o] EXCEPT
                         !.inbox = Published(@, observers[o].status = "live", m)]]

\* updateLoop: const isShutdown = yield* SubscriptionRef.get(shutdownRef)
UpdCheck ==
    /\ updateFiber.pc = "check"
    /\ updateFiber' = [updateFiber EXCEPT
                         !.pc = IF shutdownRef THEN "interrupted" ELSE "take"]
    /\ UNCHANGED <<app, given, peer, hook, modelRef, msgQueue, shutdownRef, cmdFibers, subFiber,
                   activeSubs, listeners, observers, shutdownPc, hist>>

\* A take that removes the newest element instead of the oldest
UpdTake_Lifo ==
    /\ updateFiber.pc = "take"
    /\ msgQueue # << >>
    /\ updateFiber' = [updateFiber EXCEPT !.pc = "get", !.msg = Last(msgQueue)]
    /\ msgQueue' = SubSeq(msgQueue, 1, Len(msgQueue) - 1)
    /\ UNCHANGED <<app, given, peer, hook, modelRef, shutdownRef, cmdFibers, subFiber,
                   activeSubs, listeners, observers, shutdownPc, hist>>

\* updateLoop: const msg = yield* Queue.take(msgQueue)
UpdTake ==
    /\ updateFiber.pc = "take"
    /\ msgQueue # << >>
    /\ updateFiber' = [updateFiber EXCEPT !.pc = "get", !.msg = Head(msgQueue)]
    /\ msgQueue' = Tail(msgQueue)
    /\ UNCHANGED <<app, given, peer, hook, modelRef, shutdownRef, cmdFibers, subFiber,
                   activeSubs, listeners, observers, shutdownPc, hist>>

\* A snapshot of the model taken when the update fiber started
ReadModel_Snapshot == hist.cell[1]

\* SubscriptionRef.get(modelRef) in the update loop
ReadModel == modelRef

\* updateLoop: const currentModel = yield* SubscriptionRef.get(modelRef)
\*             const [newModel, cmd] = update(msg, currentModel)
\* When update throws the generator of the loop dies with it: the update
\* fiber ends with a defect, which nothing joins or observes
UpdGet ==
    /\ updateFiber.pc = "get"
    /\ IF Throws(app, updateFiber.msg.msg)
       THEN /\ updateFiber' = [updateFiber EXCEPT !.pc = "died"]
            /\ hist' = hist
       ELSE LET currentModel == ReadModel
                r == update(app, updateFiber.msg.msg, currentModel, Len(hist.calls) + 1)
            IN  /\ updateFiber' = UpdLocals("set", updateFiber.msg, currentModel, r[1], r[2])
                /\ hist' = [hist EXCEPT !.calls = Append(@,
                              [entry |-> updateFiber.msg, model |-> currentModel, result |-> r[1]])]
    /\ UNCHANGED <<app, given, peer, hook, modelRef, msgQueue, shutdownRef, cmdFibers, subFiber,
                   activeSubs, listeners, observers, shutdownPc>>

\* updateLoop: yield* SubscriptionRef.set(modelRef, newModel)
UpdSet ==
    /\ updateFiber.pc = "set"
    /\ modelRef' = updateFiber.newModel
    /\ Publish(updateFiber.newModel)
    /\ hist' = [hist EXCEPT !.cell = Append(@, updateFiber.newModel)]
    /\ updateFiber' = [updateFiber EXCEPT !.pc = "processCmd"]
    /\ UNCHANGED <<app, given, peer, hook, msgQueue, shutdownRef, cmdFibers,
                   activeSubs, listeners, shutdownPc>>

\* An update loop that drops the command update returned instead of forking it
UpdProcessCmd_NoFork ==
    /\ updateFiber.pc = "processCmd"
    /\ hist' = [hist EXCEPT !.handed = Append(@, updateFiber.cmd)]
    /\ updateFiber' = UpdLocals("check", NoEntry, NoModel, NoModel, none)
    /\ UNCHANGED <<app, given, peer, hook, modelRef, msgQueue, shutdownRef, cmdFibers, subFiber,
                   activeSubs, listeners, observers, shutdownPc>>

\* updateLoop: yield* processCmd(cmd), which forks the command's fiber
UpdProcessCmd ==
    /\ updateFiber.pc = "processCmd"
    /\ cmdFibers' = Append(cmdFibers, updateFiber.cmd)
    /\ hist' = [hist EXCEPT !.handed = Append(@, updateFiber.cmd)]
    /\ updateFiber' = UpdLocals("check", NoEntry, NoModel, NoModel, none)
    /\ UNCHANGED <<app, given, peer, hook, modelRef, msgQueue, shutdownRef, subFiber,
                   activeSubs, listeners, observers, shutdownPc>>

\* A stream that has nothing left to emit has completed
Finished(s) == Emits(s) = {} /\ Failure(s) = {} /\ ~Pending(s)

\* Messages offered to msgQueue by subscriptions so far
SubEmitted == Cardinality({i \in 1..Len(hist.enqueued) : hist.enqueued[i].src = "sub"})

\* An activation of subscriptions(model): the stream Stream.flatMap is draining
Activation(model, stream) == [model |-> model, stream |-> stream]

\* The models (by identity) the given activations were derived from
Sources(acts) == {act.model.id : act \in acts}

\* An entry of the log of the subscription loop: "activate" when the stream of
\* subscriptions(model) starts, "empty" when it is Sub.none, "cancel" when the
\* running streams are interrupted
SubEvent(ev, ids) == [ev |-> ev, ids |-> ids]

\* The listeners registered by an activation (register of fromCallback)
Registers(stream) == IF stream.tag \in {"async", "urlChanges"} THEN 1 ELSE 0

\* The activations (by model identity) among acts that registered a listener
Registrants(acts) == {act.model.id : act \in {x \in acts : Registers(x.stream) = 1}}

RECURSIVE RegisteredBy(_)
RegisteredBy(acts) ==
    IF acts = {} THEN 0
    ELSE LET x == CHOOSE y \in acts : TRUE
         IN  Registers(x.stream) + RegisteredBy(acts \ {x})

\* subscriptionLoop starts: modelRef.changes emits the current value and subscribes
SubStart ==
    /\ subFiber.pc = "forked"
    /\ subFiber' = [subFiber EXCEPT !.pc = "pull", !.inbox = << modelRef >>]
    /\ UNCHANGED <<app, given, peer, hook, modelRef, msgQueue, shutdownRef, updateFiber, cmdFibers,
                   activeSubs, listeners, observers, shutdownPc, hist>>

\* A loop without Stream.changes: every value of modelRef.changes switches
SubPull_NoChanges ==
    /\ subFiber.pc = "pull"
    /\ subFiber.inbox # << >>
    /\ LET m == Head(subFiber.inbox)
       IN  subFiber' = [subFiber EXCEPT !.inbox = Tail(@), !.last = m, !.pending = m,
                                        !.pc = IF activeSubs = {} THEN "activate" ELSE "cancel"]
    /\ UNCHANGED <<app, given, peer, hook, modelRef, msgQueue, shutdownRef, updateFiber, cmdFibers,
                   activeSubs, listeners, observers, shutdownPc, hist>>

\* Stream.flatMap without a switch that interrupts the running inner stream
SubPull_NoSwitch ==
    /\ subFiber.pc = "pull"
    /\ subFiber.inbox # << >>
    /\ LET m == Head(subFiber.inbox)
       IN  subFiber' =
             IF m = subFiber.last
             THEN [subFiber EXCEPT !.inbox = Tail(@)]
             ELSE [subFiber EXCEPT !.inbox = Tail(@), !.last = m, !.pending = m,
                                   !.pc = "activate"]
    /\ UNCHANGED <<app, given, peer, hook, modelRef, msgQueue, shutdownRef, updateFiber, cmdFibers,
                   activeSubs, listeners, observers, shutdownPc, hist>>

\* subscriptionLoop: Stream.changes drops a model equal to the previous one;
\* a new model makes Stream.flatMap({ switch: true }) switch
SubPull ==
    /\ subFiber.pc = "pull"
    /\ subFiber.inbox # << >>
    /\ LET m == Head(subFiber.inbox)
       IN  subFiber' =
             IF m = subFiber.last
             THEN [subFiber EXCEPT !.inbox = Tail(@)]
             ELSE [subFiber EXCEPT !.inbox = Tail(@), !.last = m, !.pending = m,
                                   !.pc = IF activeSubs = {} THEN "activate" ELSE "cancel"]
    /\ UNCHANGED <<app, given, peer, hook, modelRef, msgQueue, shutdownRef, updateFiber, cmdFibers,
                   activeSubs, listeners, observers, shutdownPc, hist>>

\* An interruption that leaves the inner stream and its listener in place
SubCancel_NoCleanup ==
    /\ subFiber.pc = "cancel"
    /\ subFiber' = [subFiber EXCEPT !.pc = "activate"]
    /\ hist' = [hist EXCEPT !.subLog = Append(@, SubEvent("cancel", Sources(activeSubs)))]
    /\ UNCHANGED <<app, given, peer, hook, modelRef, msgQueue, shutdownRef, updateFiber, cmdFibers,
                   activeSubs, listeners, observers, shutdownPc>>

\* An interruption that drops the inner stream without running its cleanup
SubCancel_Leak ==
    /\ subFiber.pc = "cancel"
    /\ activeSubs' = {}
    /\ subFiber' = [subFiber EXCEPT !.pc = "activate"]
    /\ hist' = [hist EXCEPT !.subLog = Append(@, SubEvent("cancel", Sources(activeSubs)))]
    /\ UNCHANGED <<app, given, peer, hook, modelRef, msgQueue, shutdownRef, updateFiber, cmdFibers,
                   listeners, observers, shutdownPc>>

\* switch: the running inner stream is interrupted; its finalizer (cleanup) runs
SubCancel ==
    /\ subFiber.pc = "cancel"
    /\ activeSubs' = {}
    /\ listeners' = listeners - RegisteredBy(activeSubs)
    /\ subFiber' = [subFiber EXCEPT !.pc = "activate"]
    /\ hist' = [hist EXCEPT !.subLog = Append(@, SubEvent("cancel", Sources(activeSubs))),
                            !.disposed = @ (+) SetToBag(Registrants(activeSubs))]
    /\ UNCHANGED <<app, given, peer, hook, modelRef, msgQueue, shutdownRef, updateFiber, cmdFibers,
                   observers, shutdownPc>>

\* An activation that reuses the listener registered by an earlier execution of
\* the subscription instead of calling register again
SubActivate_SharedListener ==
    /\ subFiber.pc = "activate"
    /\ LET sub == subscriptions(app, subFiber.pending)
       IN  /\ activeSubs' = IF Finished(sub) THEN activeSubs
                            ELSE activeSubs \cup {Activation(subFiber.pending, sub)}
           /\ listeners' = IF hist.registered = {} THEN listeners + Registers(sub) ELSE listeners
           /\ hist' = [hist EXCEPT !.subLog = Append(@,
                         SubEvent(IF Finished(sub) THEN "empty" ELSE "activate",
                                  {subFiber.pending.id})),
                                   !.registered = IF Registers(sub) = 1 /\ hist.registered = {}
                                                  THEN @ \cup {subFiber.pending.id} ELSE @]
    /\ subFiber' = [subFiber EXCEPT !.pc = "pull", !.pending = NoModel]
    /\ UNCHANGED <<app, given, peer, hook, modelRef, msgQueue, shutdownRef, updateFiber, cmdFibers,
                   observers, shutdownPc>>

\* switch: subscriptions(model) is evaluated and the new inner stream starts
SubActivate ==
    /\ subFiber.pc = "activate"
    /\ LET sub == subscriptions(app, subFiber.pending)
       IN  /\ activeSubs' = IF Finished(sub) THEN activeSubs
                            ELSE activeSubs \cup {Activation(subFiber.pending, sub)}
           /\ listeners' = listeners + Registers(sub)
           /\ hist' = [hist EXCEPT !.subLog = Append(@,
                         SubEvent(IF Finished(sub) THEN "empty" ELSE "activate",
                                  {subFiber.pending.id})),
                                   !.registered = IF Registers(sub) = 1
                                                  THEN @ \cup {subFiber.pending.id} ELSE @]
    /\ subFiber' = [subFiber EXCEPT !.pc = "pull", !.pending = NoModel]
    /\ UNCHANGED <<app, given, peer, hook, modelRef, msgQueue, shutdownRef, updateFiber, cmdFibers,
                   observers, shutdownPc>>

\* subscriptionLoop: Stream.tap(msg => Queue.offer(msgQueue, msg)) on a message
\* of the running inner stream
SubEmit ==
    /\ SubEmitted < MaxSubEmits
    /\ \E act \in activeSubs : \E e \in Emits(act.stream) :
          /\ Offer(e[1], "sub", act.model.id)
          /\ activeSubs' = (activeSubs \ {act}) \cup
                             (IF Finished(e[2]) THEN {} ELSE {Activation(act.model, e[2])})
    /\ UNCHANGED <<app, given, peer, hook, modelRef, shutdownRef, updateFiber, cmdFibers, subFiber,
                   listeners, observers, shutdownPc>>

\* A loop that drops the failed inner stream and goes on with the next model
SubFail_Resume ==
    /\ \E act \in activeSubs : Failure(act.stream) # {}
    /\ subFiber' = [subFiber EXCEPT !.pc = "pull"]
    /\ activeSubs' = {}
    /\ listeners' = listeners - RegisteredBy(activeSubs)
    /\ hist' = [hist EXCEPT !.subLog = Append(@, SubEvent("fail", Sources(activeSubs))),
                            !.disposed = @ (+) SetToBag(Registrants(activeSubs)),
                            !.subFailedAt = Len(hist.cell)]
    /\ UNCHANGED <<app, given, peer, hook, modelRef, msgQueue, shutdownRef, updateFiber, cmdFibers,
                   observers, shutdownPc>>

\* subscriptionLoop: the running inner stream fails; flatMap, tap and runDrain
\* fail with it and the subscription fiber ends (its finalizers run)
SubFail ==
    /\ subFiber.pc \in {"pull", "cancel", "activate"}
    /\ \E act \in activeSubs : Failure(act.stream) # {}
    /\ subFiber' = [subFiber EXCEPT !.pc = "failed", !.inbox = << >>, !.pending = NoModel]
    /\ activeSubs' = {}
    /\ listeners' = listeners - RegisteredBy(activeSubs)
    /\ hist' = [hist EXCEPT !.subLog = Append(@, SubEvent("fail", Sources(activeSubs))),
                            !.disposed = @ (+) SetToBag(Registrants(activeSubs)),
                            !.subFailedAt = Len(hist.cell)]
    /\ UNCHANGED <<app, given, peer, hook, modelRef, msgQueue, shutdownRef, updateFiber, cmdFibers,
                   observers, shutdownPc>>

\* A subscription that only sees the values published after it was made
Observe_NoCurrent(o) ==
    /\ observers[o].status = "idle"
    /\ observers' = [observers EXCEPT ![o] =
                       [status |-> "live", inbox |-> << >>, received |-> << >>,
                        since |-> Len(hist.cell)]]
    /\ UNCHANGED <<app, given, peer, hook, modelRef, msgQueue, shutdownRef, updateFiber, cmdFibers, subFiber,
                   activeSubs, listeners, shutdownPc, hist>>

\* A consumer starts draining model$ (run, runWith): modelRef.changes emits the
\* current value and subscribes to the later ones
Observe(o) ==
    /\ observers[o].status = "idle"
    /\ observers' = [observers EXCEPT ![o] =
                       [status |-> "live", inbox |-> << modelRef >>, received |-> << >>,
                        since |-> Len(hist.cell)]]
    /\ UNCHANGED <<app, given, peer, hook, modelRef, msgQueue, shutdownRef, updateFiber, cmdFibers, subFiber,
                   activeSubs, listeners, shutdownPc, hist>>

\* const dispatch = (msg) => ...: the one closure program() creates
baseDispatch == [ref |-> 0]

\* view(model)(dispatch): the button of the counter, which shows the count and
\* holds the dispatch it was given for its onClick
view(model, d) == [count |-> model.count, onClick |-> d]

\* An adapter that wraps dispatch in a new closure for every model
html_FreshDispatch(model) == view(model, [ref |-> model.id + 1])

\* Html.program: html$ = Stream.map(model$, model => view(model)(baseProgram.dispatch))
html(model) == view(model, baseDispatch)

\* What consumer o is handed for a model: the model itself from model$, the
\* rendered view from html$
Element(o, model) == IF o = "html" THEN html(model) ELSE model

\* runWith: Stream.tap(model => Effect.sync(() => onModel(model))), on model$
\* or on html$
Deliver(o) ==
    /\ observers[o].status = "live"
    /\ observers[o].inbox # << >>
    /\ observers' = [observers EXCEPT ![o].inbox = Tail(@),
                                      ![o].received = Append(@, Element(o, Head(observers[o].inbox)))]
    /\ UNCHANGED <<app, given, peer, hook, modelRef, msgQueue, shutdownRef, updateFiber, cmdFibers, subFiber,
                   activeSubs, listeners, shutdownPc, hist>>

\* Some caller's shutdown has run to its end
ShutdownDone == \E c \in DOMAIN shutdownPc : shutdownPc[c] = "done"

\* A shutdown flag kept in one place for every program of the process
ShutdownSet_Global(c) ==
    /\ shutdownPc[c] = "idle"
    /\ shutdownRef' = TRUE
    /\ shutdownPc' = [shutdownPc EXCEPT ![c] = "interruptUpdate"]
    /\ peer' = IF peer.pc = "absent" THEN peer ELSE [peer EXCEPT !.shutdownRef = TRUE]
    /\ UNCHANGED <<app, given, hook, modelRef, msgQueue, updateFiber, cmdFibers, subFiber,
                   activeSubs, listeners, observers, hist>>

\* shutdown: yield* SubscriptionRef.set(shutdownRef, true)
ShutdownSet(c) ==
    /\ shutdownPc[c] = "idle"
    /\ shutdownRef' = TRUE
    /\ shutdownPc' = [shutdownPc EXCEPT ![c] = "interruptUpdate"]
    /\ UNCHANGED <<app, given, peer, hook, modelRef, msgQueue, updateFiber, cmdFibers, subFiber,
                   activeSubs, listeners, observers, hist>>

\* A shutdown that stops the update loop by its flag only: a loop waiting for a
\* message is ended, a loop in the middle of an iteration finishes it
ShutdownInterruptUpdate_FlagOnly(c) ==
    /\ shutdownPc[c] = "interruptUpdate"
    /\ updateFiber' = IF updateFiber.pc \in {"check", "take"}
                      THEN [updateFiber EXCEPT !.pc = "interrupted"]
                      ELSE updateFiber
    /\ shutdownPc' = [shutdownPc EXCEPT ![c] = "interruptSub"]
    /\ UNCHANGED <<app, given, peer, hook, modelRef, msgQueue, shutdownRef, cmdFibers, subFiber,
                   activeSubs, listeners, observers, hist>>

\* A shutdown that leaves the update fiber running
ShutdownInterruptUpdate_NoInterrupt(c) ==
    /\ shutdownPc[c] = "interruptUpdate"
    /\ shutdownPc' = [shutdownPc EXCEPT ![c] = "interruptSub"]
    /\ UNCHANGED <<app, given, peer, hook, modelRef, msgQueue, shutdownRef, updateFiber, cmdFibers, subFiber,
                   activeSubs, listeners, observers, hist>>

\* shutdown: yield* Fiber.interrupt(updateFiber); a fiber that has already
\* ended is left as it is
ShutdownInterruptUpdate(c) ==
    /\ shutdownPc[c] = "interruptUpdate"
    /\ updateFiber' = [updateFiber EXCEPT !.pc = "interrupted"]
    /\ shutdownPc' = [shutdownPc EXCEPT ![c] = "interruptSub"]
    /\ UNCHANGED <<app, given, peer, hook, modelRef, msgQueue, shutdownRef, cmdFibers, subFiber,
                   activeSubs, listeners, observers, hist>>

\* The end of shutdown: the number of messages offered so far is recorded once
Closed == IF hist.closedAt = -1 THEN Len(hist.enqueued) ELSE hist.closedAt

\* An interruption that runs the cleanup of the last activation on every call
ShutdownInterruptSub_DisposeAgain(c) ==
    /\ shutdownPc[c] = "interruptSub"
    /\ subFiber' = IF subFiber.pc = "failed" THEN subFiber
                   ELSE [subFiber EXCEPT !.pc = "interrupted", !.inbox = << >>,
                                         !.pending = NoModel]
    /\ activeSubs' = {}
    /\ listeners' = listeners - Cardinality(hist.registered)
    /\ hist' = [hist EXCEPT !.subLog = IF activeSubs = {} THEN @
                                       ELSE Append(@, SubEvent("cancel", Sources(activeSubs))),
                            !.disposed = @ (+) SetToBag(hist.registered),
                            !.closedAt = Closed]
    /\ shutdownPc' = [shutdownPc EXCEPT ![c] = "done"]
    /\ UNCHANGED <<app, given, peer, hook, modelRef, msgQueue, shutdownRef, updateFiber, cmdFibers,
                   observers>>

\* An interruption that ends the fiber without running the finalizers of the
\* inner stream
ShutdownInterruptSub_NoFinalizers(c) ==
    /\ shutdownPc[c] = "interruptSub"
    /\ subFiber' = IF subFiber.pc = "failed" THEN subFiber
                   ELSE [subFiber EXCEPT !.pc = "interrupted", !.inbox = << >>,
                                         !.pending = NoModel]
    /\ activeSubs' = {}
    /\ hist' = [hist EXCEPT !.subLog = IF activeSubs = {} THEN @
                                       ELSE Append(@, SubEvent("cancel", Sources(activeSubs))),
                            !.closedAt = Closed]
    /\ shutdownPc' = [shutdownPc EXCEPT ![c] = "done"]
    /\ UNCHANGED <<app, given, peer, hook, modelRef, msgQueue, shutdownRef, updateFiber, cmdFibers,
                   listeners, observers>>

\* shutdown: yield* Fiber.interrupt(subFiber); the finalizers of the running
\* inner stream run; a fiber that has already ended is left as it is
ShutdownInterruptSub(c) ==
    /\ shutdownPc[c] = "interruptSub"
    /\ subFiber' = IF subFiber.pc = "failed" THEN subFiber
                   ELSE [subFiber EXCEPT !.pc = "interrupted", !.inbox = << >>,
                                         !.pending = NoModel]
    /\ activeSubs' = {}
    /\ listeners' = listeners - RegisteredBy(activeSubs)
    /\ hist' = [hist EXCEPT !.subLog = IF activeSubs = {} THEN @
                                       ELSE Append(@, SubEvent("cancel", Sources(activeSubs))),
                            !.disposed = @ (+) SetToBag(Registrants(activeSubs)),
                            !.closedAt = Closed]
    /\ shutdownPc' = [shutdownPc EXCEPT ![c] = "done"]
    /\ UNCHANGED <<app, given, peer, hook, modelRef, msgQueue, shutdownRef, updateFiber, cmdFibers,
                   observers>>

Next ==
    \/ \E msg \in Dispatchable(app) : dispatch(msg)
    \/ \E i \in DOMAIN cmdFibers : CmdFiberStep(i)
    \/ \E i \in DOMAIN cmdFibers : CmdFiberFail(i)
    \/ UpdCheck
    \/ UpdTake
    \/ UpdGet
    \/ UpdSet
    \/ UpdProcessCmd
    \/ SubStart
    \/ SubPull
    \/ SubCancel
    \/ SubActivate
    \/ SubEmit
    \/ SubFail
    \/ \E o \in DOMAIN observers : Observe(o)
    \/ \E o \in DOMAIN observers : Deliver(o)
    \/ \E c \in DOMAIN shutdownPc : ShutdownSet(c)
    \/ \E c \in DOMAIN shutdownPc : ShutdownInterruptUpdate(c)
    \/ \E c \in DOMAIN shutdownPc : ShutdownInterruptSub(c)

Spec == Init /\ [][Next]_vars

\* The scheduler runs every fiber that can run: the update fiber, the command
\* fibers and the subscription fiber all make progress
FairSpec ==
    /\ Spec
    /\ WF_vars(UpdCheck \/ UpdTake \/ UpdGet \/ UpdSet \/ UpdProcessCmd)
    /\ WF_vars(\E i \in DOMAIN cmdFibers : CmdFiberStep(i) \/ CmdFiberFail(i))
    /\ WF_vars(SubStart \/ SubPull \/ SubCancel \/ SubActivate \/ SubFail)

-----------------------------------------------------------------------------
(* A command run on its own: processCmd(Cmd.batch(cmds)) with no update loop, *)
(* the messages collecting in msgQueue (Stream.runCollect in the tests).      *)

\* The commands handed to Cmd.batch
CmdUniverse == {none, of("A"), of("B"), fromIterable(<< "A", "B" >>)}

BatchInputs == UNION {[1..n -> CmdUniverse] : n \in 0..MaxBatch}

BatchInit ==
    /\ app = "counter"
    /\ given \in BatchInputs
    /\ modelRef = init(app)[1]
    /\ msgQueue = << >>
    /\ shutdownRef = FALSE
    /\ cmdFibers = << batch(given) >>
    /\ updateFiber = UpdLocals("interrupted", NoEntry, NoModel, NoModel, none)
    /\ subFiber = [pc |-> "interrupted", inbox |-> << >>, last |-> NoModel, pending |-> NoModel]
    /\ activeSubs = {}
    /\ listeners = 0
    /\ observers = [o \in {} |-> 0]
    /\ shutdownPc = [c \in {1} |-> "done"]
    /\ peer = NoPeer
    /\ hook = NoHook
    /\ hist = [dispatched |-> << >>, enqueued |-> << >>, calls |-> << >>,
               cell |-> << init(app)[1] >>, handed |-> << batch(given) >>, subLog |-> << >>,
               registered |-> {}, disposed |-> EmptyBag, closedAt |-> 0, subFailedAt |-> -1]

BatchNext == \E i \in DOMAIN cmdFibers : CmdFiberStep(i)

BatchSpec == BatchInit /\ [][BatchNext]_vars

-----------------------------------------------------------------------------
(* Cmd.map / Sub.map: two mapped streams are run side by side and their      *)
(* messages collected (Stream.runCollect in the tests).                      *)

\* The functions handed to map: g on the messages of the stream, f on its results
InnerFns == [{"A", "B"} -> {"X", "Y"}]

OuterFns == [{"X", "Y"} -> {"P", "Q"}]

\* f after g
compose(f, g) == [x \in DOMAIN g |-> f[g[x]]]

\* The streams handed to map
MapUniverse ==
    {none, of("A"), fromIterable(<< "A", "B" >>), fromIterable(<< "B", "A", "A" >>),
     batch(<< of("A"), fromIterable(<< "B", "A" >>) >>), fromEffect(succeed("B"))}

MapInit ==
    /\ app = "counter"
    /\ given \in {<< [c |-> c, f |-> f, g |-> g] >> : c \in MapUniverse, f \in OuterFns, g \in InnerFns}
    /\ modelRef = init(app)[1]
    /\ msgQueue = << >>
    /\ shutdownRef = FALSE
    /\ cmdFibers = << map(given[1].f, map(given[1].g, given[1].c)),
                      map(compose(given[1].f, given[1].g), given[1].c) >>
    /\ updateFiber = UpdLocals("interrupted", NoEntry, NoModel, NoModel, none)
    /\ subFiber = [pc |-> "interrupted", inbox |-> << >>, last |-> NoModel, pending |-> NoModel]
    /\ activeSubs = {}
    /\ listeners = 0
    /\ observers = << >>
    /\ shutdownPc = << >>
    /\ peer = NoPeer
    /\ hook = NoHook
    /\ hist = [dispatched |-> << >>, enqueued |-> << >>, calls |-> << >>,
               cell |-> << init(app)[1] >>, handed |-> << >>, subLog |-> << >>,
               registered |-> {}, disposed |-> EmptyBag, closedAt |-> 0, subFailedAt |-> -1]

\* Stream.runCollect(stream): the next message of stream i is collected
RunCollect(i) ==
    /\ \E e \in Emits(cmdFibers[i]) :
          /\ Offer(e[1], "cmd", i)
          /\ cmdFibers' = [cmdFibers EXCEPT ![i] = e[2]]
    /\ UNCHANGED <<app, given, peer, hook, modelRef, shutdownRef, updateFiber, subFiber,
                   activeSubs, listeners, observers, shutdownPc>>

MapNext == \E i \in DOMAIN cmdFibers : RunCollect(i)

MapSpec == MapInit /\ [][MapNext]_vars

-----------------------------------------------------------------------------
(* Task: the bridge from an Effect to a command.  Task.ts builds the command  *)
(* as an Effect that succeeds with Option.some(msg) (Cmd = Effect<Option<Msg>>,*)
(* the representation of the earlier Cmd.ts), so it is run here by the        *)
(* processCmd that takes this representation (the earlier Platform.ts): it    *)
(* runs the effect and offers the message of a Some to msgQueue before the    *)
(* loops are forked.  The update loop that then takes the message reads the   *)
(* same in both Platform.ts.                                                  *)

\* The results and the errors of the tasks
Values == {41, 42}

Errors == {"oops", "error"}

\* Either.right / Either.left
right(a) == [tag |-> "Right", right |-> a]

left(e) == [tag |-> "Left", left |-> e]

Eithers == {right(a) : a \in Values} \cup {left(e) : e \in Errors}

\* Option.some / Option.none
some(x) == [tag |-> "Some", value |-> x]

optionNone == [tag |-> "None"]

\* Effect.map(task, f)
effectMap(task, f) == IF task.tag = "succeed" THEN succeed(f[task.a]) ELSE task

\* Effect.either(task): the failure becomes a Left, the effect cannot fail
either(task) == IF task.tag = "succeed" THEN succeed(right(task.a)) ELSE succeed(left(task.e))

\* Either.match({ onLeft, onRight })
eitherMatch(onLeft, onRight) ==
    [x \in Eithers |-> IF x.tag = "Left" THEN onLeft[x.left] ELSE onRight[x.right]]

\* A bridge that runs the task and drops its result
perform_NoMessage(f, task) == effectMap(task, [a \in DOMAIN f |-> optionNone])

\* Task.perform(f)(task)
perform(f, task) == effectMap(task, [a \in DOMAIN f |-> some(f[a])])

\* A bridge that maps the success only and lets the failure through
attempt_NoEither(f, task) ==
    IF task.tag = "succeed" THEN succeed(some(f[right(task.a)])) ELSE task

\* Task.attempt(f)(task)
attempt(f, task) == effectMap(either(task), [x \in DOMAIN f |-> some(f[x])])

\* Task.attemptWith({ onSuccess, onFailure })(task)
attemptWith(handlers, task) ==
    attempt(eitherMatch(handlers.onFailure, handlers.onSuccess), task)

\* The handlers of the tests: perform, attempt, attemptWith
GotNumber == [a \in Values |-> [type |-> "GotNumber", n |-> a]]

FromEither ==
    [x \in Eithers |-> IF x.tag = "Right" THEN [type |-> "Success", value |-> x.right]
                                          ELSE [type |-> "Failure", error |-> x.left]]

Handlers ==
    [onSuccess |-> [n \in Values |-> [type |-> "Success", n |-> n]],
     onFailure |-> [e \in Errors |-> [type |-> "Failure", e |-> e]]]

\* The tasks and the bridge applied to them; perform takes infallible tasks only
Tasks == {succeed(a) : a \in Values} \cup {fail(e) : e \in Errors}

Bridged ==
    {[kind |-> "perform", task |-> t] : t \in {succeed(a) : a \in Values}}
    \cup {[kind |-> k, task |-> t] : k \in {"attempt", "attemptWith"}, t \in Tasks}

Bridge(b) ==
    CASE b.kind = "perform"     -> perform(GotNumber, b.task)
      [] b.kind = "attempt"     -> attempt(FromEither, b.task)
      [] b.kind = "attemptWith" -> attemptWith(Handlers, b.task)

TaskInit ==
    /\ app = "task"
    /\ given \in {<< b >> : b \in Bridged}
    /\ modelRef = init(app)[1]
    /\ msgQueue = << >>
    /\ shutdownRef = FALSE
    /\ cmdFibers = << Bridge(given[1]) >>
    /\ updateFiber = UpdLocals("unforked", NoEntry, NoModel, NoModel, none)
    /\ subFiber = [pc |-> "interrupted", inbox |-> << >>, last |-> NoModel, pending |-> NoModel]
    /\ activeSubs = {}
    /\ listeners = 0
    /\ observers = [o \in {} |-> 0]
    /\ shutdownPc = [c \in {1} |-> "done"]
    /\ peer = NoPeer
    /\ hook = NoHook
    /\ hist = [dispatched |-> << >>, enqueued |-> << >>, calls |-> << >>,
               cell |-> << init(app)[1] >>, handed |-> << >>, subLog |-> << >>,
               registered |-> {}, disposed |-> EmptyBag, closedAt |-> 0, subFailedAt |-> -1]

\* program: yield* processCmd(initialCmd), then the update loop is forked.
\* processCmd runs the effect and offers the message of a Some; a failure of
\* the effect is the failure of program
ProcessTaskCmd ==
    /\ updateFiber.pc = "unforked"
    /\ cmdFibers[1].tag \in {"succeed", "fail"}
    /\ LET cmd == cmdFibers[1]
       IN  IF cmd.tag = "fail"
           THEN /\ cmdFibers' = << failed(cmd.e) >>
                /\ UNCHANGED <<msgQueue, hist, updateFiber>>
           ELSE /\ cmdFibers' = << none >>
                /\ updateFiber' = [updateFiber EXCEPT !.pc = "check"]
                /\ IF cmd.a.tag = "Some" THEN Offer(cmd.a.value, "cmd", -1)
                                         ELSE UNCHANGED <<msgQueue, hist>>
    /\ UNCHANGED <<app, given, peer, hook, modelRef, shutdownRef, subFiber,
                   activeSubs, listeners, observers, shutdownPc>>

TaskNext ==
    \/ ProcessTaskCmd
    \/ \E msg \in Dispatchable(app) : dispatch(msg)
    \/ UpdCheck
    \/ UpdTake
    \/ UpdGet
    \/ UpdSet
    \/ UpdProcessCmd

TaskSpec == TaskInit /\ [][TaskNext]_vars

-----------------------------------------------------------------------------
(* Construction: the generator of program() step by step, from the          *)
(* allocation of the cell and the queue to the return of the handle.  The    *)
(* host can dispatch only once it holds the handle.  No keyboard event      *)
(* occurs meanwhile: the subscriptions register their listeners and are      *)
(* cancelled, but emit nothing.                                              *)

\* The flags handed to the function programWithFlags returns
Flags == {[startValue |-> v] : v \in {0, 100}}

\* init = flags => [{ count: flags.startValue }, cmd]; the command depends on
\* the flags too: none for one value of the flags, a command for the other
initWithFlags ==
    [flags \in Flags |->
        << Model(flags.startValue, FALSE, 0),
           IF flags.startValue = 0 THEN of("Set") ELSE none >>]

\* program(init, ...): const [initialModel, initialCmd] = init
program(i) == [initialModel |-> i[1], initialCmd |-> i[2]]

\* A constructor that builds the program from the flags it was defined with
programWithFlags_DefaultFlags(initFn, flags) ==
    program(initFn[CHOOSE f \in DOMAIN initFn : f.startValue = 0])

\* programWithFlags(init, ...)(flags) = program(init(flags), ...)
programWithFlags(initFn, flags) == program(initFn[flags])

\* The applications constructed step by step
ConstructApps == {"hanging", "initcmd", "flags", "users", "view"}

\* What the constructor called by the host unpacks
Initial ==
    IF app = "flags" THEN programWithFlags(initWithFlags, given[1]) ELSE program(init(app))

ConstructInit ==
    /\ app \in ConstructApps
    /\ given \in IF app = "flags" THEN {<< f >> : f \in Flags} ELSE {<< >>}
    /\ modelRef = Initial.initialModel
    /\ msgQueue = << >>
    /\ shutdownRef = FALSE
    /\ cmdFibers = << >>
    /\ updateFiber = UpdLocals("unforked", NoEntry, NoModel, NoModel, none)
    /\ subFiber = [pc |-> "unforked", inbox |-> << >>, last |-> NoModel, pending |-> NoModel]
    /\ activeSubs = {}
    /\ listeners = 0
    /\ observers = [o \in Observers(app) |->
                      [status |-> "idle", inbox |-> << >>, received |-> << >>, since |-> 0]]
    /\ shutdownPc = << >>
    /\ peer = NoPeer
    /\ hook = NoHook
    /\ hist = [dispatched |-> << >>, enqueued |-> << >>, calls |-> << >>,
               cell |-> << Initial.initialModel >>, handed |-> << >>, subLog |-> << >>,
               registered |-> {}, disposed |-> EmptyBag, closedAt |-> -1, subFailedAt |-> -1]

\* A constructor that runs the initial command itself and goes on when the
\* command has completed
ProgramProcessCmd_Inline ==
    /\ cmdFibers = << >>
    /\ Failure(Initial.initialCmd) = {}
    /\ ~Pending(Initial.initialCmd)
    /\ cmdFibers' = << none >>
    /\ LET out == {e[1] : e \in Emits(Initial.initialCmd)}
           ens == {Entry(m, "cmd", -1, Len(hist.enqueued) + 1) : m \in out}
       IN  /\ msgQueue' = IF ens = {} THEN msgQueue ELSE Append(msgQueue, CHOOSE e \in ens : TRUE)
           /\ hist' = [hist EXCEPT !.handed = << Initial.initialCmd >>,
                                   !.enqueued = IF ens = {} THEN @
                                                ELSE Append(@, CHOOSE e \in ens : TRUE)]
    /\ UNCHANGED <<app, given, peer, hook, modelRef, shutdownRef, updateFiber, subFiber,
                   activeSubs, listeners, observers, shutdownPc>>

\* program: yield* processCmd(initialCmd), which forks the command's fiber
ProgramProcessCmd ==
    /\ cmdFibers = << >>
    /\ cmdFibers' = << Initial.initialCmd >>
    /\ hist' = [hist EXCEPT !.handed = << Initial.initialCmd >>]
    /\ UNCHANGED <<app, given, peer, hook, modelRef, msgQueue, shutdownRef, updateFiber, subFiber,
                   activeSubs, listeners, observers, shutdownPc>>

\* program: const updateFiber = yield* Effect.forkScoped(updateLoop)
ProgramForkUpdate ==
    /\ cmdFibers # << >>
    /\ updateFiber.pc = "unforked"
    /\ updateFiber' = [updateFiber EXCEPT !.pc = "check"]
    /\ UNCHANGED <<app, given, peer, hook, modelRef, msgQueue, shutdownRef, cmdFibers, subFiber,
                   activeSubs, listeners, observers, shutdownPc, hist>>

\* program: const subFiber = yield* Effect.forkScoped(subscriptionLoop), then
\* return { dispatch, model$, shutdown }
ProgramForkSub ==
    /\ updateFiber.pc # "unforked"
    /\ subFiber.pc = "unforked"
    /\ subFiber' = [subFiber EXCEPT !.pc = "forked"]
    /\ UNCHANGED <<app, given, peer, hook, modelRef, msgQueue, shutdownRef, updateFiber, cmdFibers,
                   activeSubs, listeners, observers, shutdownPc, hist>>

\* The host holds the handle { dispatch, model$, shutdown }
Returned == subFiber.pc # "unforked"

ConstructNext ==
    \/ ProgramProcessCmd
    \/ ProgramForkUpdate
    \/ ProgramForkSub
    \/ Returned /\ \E msg \in Dispatchable(app) : dispatch(msg)
    \/ Returned /\ \E o \in DOMAIN observers : Observe(o)
    \/ \E o \in DOMAIN observers : Deliver(o)
    \/ \E i \in DOMAIN cmdFibers : CmdFiberStep(i)
    \/ UpdCheck
    \/ UpdTake
    \/ UpdGet
    \/ UpdSet
    \/ UpdProcessCmd
    \/ SubStart
    \/ SubPull
    \/ SubCancel
    \/ SubActivate

ConstructSpec == ConstructInit /\ [][ConstructNext]_vars

\* The scheduler runs the constructing fiber and every forked fiber that can run
ConstructFairSpec ==
    /\ ConstructSpec
    /\ WF_vars(ProgramProcessCmd \/ ProgramForkUpdate \/ ProgramForkSub)
    /\ WF_vars(UpdCheck \/ UpdTake \/ UpdGet \/ UpdSet \/ UpdProcessCmd)
    /\ WF_vars(\E i \in DOMAIN cmdFibers : CmdFiberStep(i))
    /\ WF_vars(SubStart \/ SubPull \/ SubCancel \/ SubActivate)

-----------------------------------------------------------------------------
(* Two programs in one process: the host calls program() twice.  The first   *)
(* program is the one of the variables above; the second, the counter of     *)
(* tests/Platform.test.ts, has its own cell, queue, flag and update fiber    *)
(* (each call of program() allocates them), kept in the record `peer`.       *)

\* The variables of the first program
own == <<app, given, hook, modelRef, msgQueue, shutdownRef, updateFiber, cmdFibers, subFiber,
         activeSubs, listeners, observers, shutdownPc, hist>>

PairInit ==
    /\ app = "initcmd"
    /\ given = << >>
    /\ modelRef = init(app)[1]
    /\ msgQueue = << >>
    /\ shutdownRef = FALSE
    /\ cmdFibers = << init(app)[2] >>
    /\ updateFiber = UpdLocals("check", NoEntry, NoModel, NoModel, none)
    /\ subFiber = [pc |-> "forked", inbox |-> << >>, last |-> NoModel, pending |-> NoModel]
    /\ activeSubs = {}
    /\ listeners = 0
    /\ observers = << >>
    /\ shutdownPc = [c \in {1} |-> "idle"]
    /\ hist = [dispatched |-> << >>, enqueued |-> << >>, calls |-> << >>,
               cell |-> << init(app)[1] >>, handed |-> << init(app)[2] >>, subLog |-> << >>,
               registered |-> {}, disposed |-> EmptyBag, closedAt |-> -1, subFailedAt |-> -1]
    /\ hook = NoHook
    /\ peer = [pc |-> "check", modelRef |-> init("counter")[1], msgQueue |-> << >>,
               shutdownRef |-> FALSE, msg |-> "-", newModel |-> NoModel, shutdownPc |-> "idle",
               dispatched |-> << >>, calls |-> << >>, cell |-> << init("counter")[1] >>]

\* dispatch of the second program
PeerDispatch(msg) ==
    /\ Len(peer.dispatched) < MaxPeerDispatch
    /\ peer' = [peer EXCEPT !.msgQueue = Append(@, msg), !.dispatched = Append(@, msg)]
    /\ UNCHANGED own

\* updateLoop of the second program: the shutdown check
PeerUpdCheck ==
    /\ peer.pc = "check"
    /\ peer' = [peer EXCEPT !.pc = IF peer.shutdownRef THEN "interrupted" ELSE "take"]
    /\ UNCHANGED own

\* updateLoop of the second program: Queue.take
PeerUpdTake ==
    /\ peer.pc = "take"
    /\ peer.msgQueue # << >>
    /\ peer' = [peer EXCEPT !.pc = "get", !.msg = Head(peer.msgQueue), !.msgQueue = Tail(@)]
    /\ UNCHANGED own

\* updateLoop of the second program: SubscriptionRef.get and update
PeerUpdGet ==
    /\ peer.pc = "get"
    /\ peer' = [peer EXCEPT !.pc = "set",
                            !.newModel = update("counter", peer.msg, peer.modelRef,
                                                Len(peer.calls) + 1)[1],
                            !.calls = Append(@, peer.msg)]
    /\ UNCHANGED own

\* updateLoop of the second program: SubscriptionRef.set, then processCmd of
\* the Cmd.none the counter returns
PeerUpdSet ==
    /\ peer.pc = "set"
    /\ peer' = [peer EXCEPT !.pc = "check", !.modelRef = peer.newModel,
                            !.cell = Append(@, peer.newModel), !.newModel = NoModel,
                            !.msg = "-"]
    /\ UNCHANGED own

\* shutdown of the second program: the flag is set
PeerShutdownSet ==
    /\ peer.shutdownPc = "idle"
    /\ peer' = [peer EXCEPT !.shutdownRef = TRUE, !.shutdownPc = "interrupt"]
    /\ UNCHANGED own

\* shutdown of the second program: its fibers are interrupted
PeerShutdownInterrupt ==
    /\ peer.shutdownPc = "interrupt"
    /\ peer' = [peer EXCEPT !.pc = "interrupted", !.shutdownPc = "done"]
    /\ UNCHANGED own

PairNext ==
    \/ \E msg \in Dispatchable(app) : dispatch(msg)
    \/ \E i \in DOMAIN cmdFibers : CmdFiberStep(i)
    \/ UpdCheck
    \/ UpdTake
    \/ UpdGet
    \/ UpdSet
    \/ UpdProcessCmd
    \/ \E c \in DOMAIN shutdownPc : ShutdownSet(c)
    \/ \E c \in DOMAIN shutdownPc : ShutdownInterruptUpdate(c)
    \/ \E c \in DOMAIN shutdownPc : ShutdownInterruptSub(c)
    \/ \E msg \in Dispatchable("counter") : PeerDispatch(msg)
    \/ PeerUpdCheck
    \/ PeerUpdTake
    \/ PeerUpdGet
    \/ PeerUpdSet
    \/ PeerShutdownSet
    \/ PeerShutdownInterrupt

PairSpec == PairInit /\ [][PairNext]_vars

-----------------------------------------------------------------------------
(* An update that throws: the counter with a message update does not handle. *)

ThrowInit ==
    /\ app = "throwing"
    /\ given = << >>
    /\ modelRef = init(app)[1]
    /\ msgQueue = << >>
    /\ shutdownRef = FALSE
    /\ cmdFibers = << init(app)[2] >>
    /\ updateFiber = UpdLocals("check", NoEntry, NoModel, NoModel, none)
    /\ subFiber = [pc |-> "forked", inbox |-> << >>, last |-> NoModel, pending |-> NoModel]
    /\ activeSubs = {}
    /\ listeners = 0
    /\ observers = [o \in Observers(app) |->
                      [status |-> "idle", inbox |-> << >>, received |-> << >>, since |-> 0]]
    /\ shutdownPc = << >>
    /\ peer = NoPeer
    /\ hook = NoHook
    /\ hist = [dispatched |-> << >>, enqueued |-> << >>, calls |-> << >>,
               cell |-> << init(app)[1] >>, handed |-> << init(app)[2] >>, subLog |-> << >>,
               registered |-> {}, disposed |-> EmptyBag, closedAt |-> -1, subFailedAt |-> -1]

ThrowNext ==
    \/ \E msg \in Dispatchable(app) : dispatch(msg)
    \/ UpdCheck
    \/ UpdTake
    \/ UpdGet
    \/ UpdSet
    \/ UpdProcessCmd
    \/ SubStart
    \/ SubPull
    \/ SubActivate
    \/ \E o \in DOMAIN observers : Observe(o)
    \/ \E o \in DOMAIN observers : Deliver(o)

ThrowSpec == ThrowInit /\ [][ThrowNext]_vars

-----------------------------------------------------------------------------
(* A timer that is switched off by its first Tick: the ticker application    *)
(* with subscriptions = model.on ? Sub.interval(ms, Tick) : Sub.none.  The   *)
(* stream of Sub.interval waits between two messages only when ms > 0: the   *)
(* wait is a timer of the host, which fires when every fiber is suspended.   *)
(* With ms = 0 the schedule has no delay and the stream goes on emitting     *)
(* whenever its fiber runs.                                                  *)

\* The ms handed to Sub.interval
Periods == {0, 10}

TickInit ==
    /\ app = "ticker"
    /\ given \in {<< ms >> : ms \in Periods}
    /\ modelRef = init(app)[1]
    /\ msgQueue = << >>
    /\ shutdownRef = FALSE
    /\ cmdFibers = << init(app)[2] >>
    /\ updateFiber = UpdLocals("check", NoEntry, NoModel, NoModel, none)
    /\ subFiber = [pc |-> "forked", inbox |-> << >>, last |-> NoModel, pending |-> NoModel]
    /\ activeSubs = {}
    /\ listeners = 0
    /\ observers = << >>
    /\ shutdownPc = << >>
    /\ peer = NoPeer
    /\ hook = NoHook
    /\ hist = [dispatched |-> << >>, enqueued |-> << >>, calls |-> << >>,
               cell |-> << init(app)[1] >>, handed |-> << init(app)[2] >>, subLog |-> << >>,
               registered |-> {}, disposed |-> EmptyBag, closedAt |-> -1, subFailedAt |-> -1]

\* Every fiber of the program is suspended: the update loop waits for a
\* message, the subscription loop for a model
Suspended ==
    /\ updateFiber.pc = "take"
    /\ msgQueue = << >>
    /\ subFiber.pc = "pull"
    /\ subFiber.inbox = << >>

\* Sub.interval(ms, msg): the running stream emits its next message, which the
\* tap of the subscription loop offers to msgQueue
IntervalTick ==
    /\ SubEmitted < MaxTicks
    /\ given[1] > 0 => Suspended
    /\ \E act \in activeSubs : \E e \in Emits(act.stream) :
          /\ act.stream.tag = "repeat"
          /\ Offer(e[1], "sub", act.model.id)
          /\ activeSubs' = (activeSubs \ {act}) \cup {Activation(act.model, e[2])}
    /\ UNCHANGED <<app, given, peer, hook, modelRef, shutdownRef, updateFiber, cmdFibers, subFiber,
                   listeners, observers, shutdownPc>>

TickNext ==
    \/ \E msg \in Dispatchable(app) : dispatch(msg)
    \/ UpdCheck
    \/ UpdTake
    \/ UpdGet
    \/ UpdSet
    \/ UpdProcessCmd
    \/ SubStart
    \/ SubPull
    \/ SubCancel
    \/ SubActivate
    \/ IntervalTick

TickSpec == TickInit /\ [][TickNext]_vars

-----------------------------------------------------------------------------
(* The Navigation example left alone: no host event, no dispatch.  The run   *)
(* may go on for ever, so nothing is recorded in the history and the         *)
(* identity of a model object no longer referenced is given to the next      *)
(* object allocated, as the address of a collected object is.                *)

\* The identities a new object can get
Addresses == 0..7

\* The model objects the program still holds a reference to
Referenced ==
    {modelRef, subFiber.last, subFiber.pending, updateFiber.currentModel, updateFiber.newModel}
    \cup {subFiber.inbox[i] : i \in DOMAIN subFiber.inbox}
    \cup {act.model : act \in activeSubs}

\* The identity of the next object allocated
NewObject ==
    CHOOSE id \in Addresses :
        /\ id \notin {m.id : m \in Referenced}
        /\ \A other \in Addresses : other \notin {m.id : m \in Referenced} => id <= other

NavInit ==
    /\ app = "nav"
    /\ given = << >>
    /\ modelRef = init(app)[1]
    /\ msgQueue = << >>
    /\ shutdownRef = FALSE
    /\ cmdFibers = << init(app)[2] >>
    /\ updateFiber = UpdLocals("check", NoEntry, NoModel, NoModel, none)
    /\ subFiber = [pc |-> "forked", inbox |-> << >>, last |-> NoModel, pending |-> NoModel]
    /\ activeSubs = {}
    /\ listeners = 0
    /\ observers = << >>
    /\ shutdownPc = [c \in Callers(app) |-> "idle"]
    /\ peer = NoPeer
    /\ hook = NoHook
    /\ hist = [dispatched |-> << >>, enqueued |-> << >>, calls |-> << >>,
               cell |-> << init(app)[1] >>, handed |-> << init(app)[2] >>, subLog |-> << >>,
               registered |-> {}, disposed |-> EmptyBag, closedAt |-> -1, subFailedAt |-> -1]

\* updateLoop: SubscriptionRef.get(modelRef) and update(msg, currentModel)
NavUpdGet ==
    /\ updateFiber.pc = "get"
    /\ LET r == update(app, updateFiber.msg.msg, ReadModel, NewObject)
       IN  updateFiber' = UpdLocals("set", updateFiber.msg, ReadModel, r[1], r[2])
    /\ UNCHANGED <<app, given, peer, hook, modelRef, msgQueue, shutdownRef, cmdFibers, subFiber,
                   activeSubs, listeners, observers, shutdownPc, hist>>

\* updateLoop: SubscriptionRef.set(modelRef, newModel)
NavUpdSet ==
    /\ updateFiber.pc = "set"
    /\ modelRef' = updateFiber.newModel
    /\ Publish(updateFiber.newModel)
    /\ updateFiber' = [updateFiber EXCEPT !.pc = "processCmd"]
    /\ UNCHANGED <<app, given, peer, hook, msgQueue, shutdownRef, cmdFibers,
                   activeSubs, listeners, shutdownPc, hist>>

\* updateLoop: processCmd(Cmd.none): the fiber forked for the empty stream ends
\* at once
NavUpdProcessCmd ==
    /\ updateFiber.pc = "processCmd"
    /\ updateFiber.cmd = none
    /\ updateFiber' = UpdLocals("check", NoEntry, NoModel, NoModel, none)
    /\ UNCHANGED <<app, given, peer, hook, modelRef, msgQueue, shutdownRef, cmdFibers, subFiber,
                   activeSubs, listeners, observers, shutdownPc, hist>>

\* switch: the running urlChanges stream is interrupted and removes its listener
NavSubCancel ==
    /\ subFiber.pc = "cancel"
    /\ activeSubs' = {}
    /\ listeners' = listeners - RegisteredBy(activeSubs)
    /\ subFiber' = [subFiber EXCEPT !.pc = "activate"]
    /\ UNCHANGED <<app, given, peer, hook, modelRef, msgQueue, shutdownRef, updateFiber, cmdFibers,
                   observers, shutdownPc, hist>>

\* switch: subscriptions(model) is evaluated and the new urlChanges stream
\* starts: register emits the current location and adds the listener
NavSubActivate ==
    /\ subFiber.pc = "activate"
    /\ LET sub == subscriptions(app, subFiber.pending)
       IN  /\ activeSubs' = activeSubs \cup {Activation(subFiber.pending, sub)}
           /\ listeners' = listeners + Registers(sub)
    /\ subFiber' = [subFiber EXCEPT !.pc = "pull", !.pending = NoModel]
    /\ UNCHANGED <<app, given, peer, hook, modelRef, msgQueue, shutdownRef, updateFiber, cmdFibers,
                   observers, shutdownPc, hist>>

\* subscriptionLoop: the tap offers the message the running stream emitted
NavSubEmit ==
    /\ \E act \in activeSubs : \E e \in Emits(act.stream) :
          /\ msgQueue' = Append(msgQueue, Entry(e[1], "sub", act.model.id, 0))
          /\ activeSubs' = (activeSubs \ {act}) \cup {Activation(act.model, e[2])}
    /\ UNCHANGED <<app, given, peer, hook, modelRef, shutdownRef, updateFiber, cmdFibers, subFiber,
                   listeners, observers, shutdownPc, hist>>

NavNext ==
    \/ UpdCheck
    \/ UpdTake
    \/ NavUpdGet
    \/ NavUpdSet
    \/ NavUpdProcessCmd
    \/ SubStart
    \/ SubPull
    \/ NavSubCancel
    \/ NavSubActivate
    \/ NavSubEmit
    \/ \E c \in DOMAIN shutdownPc : ShutdownSet(c)
    \/ \E c \in DOMAIN shutdownPc : ShutdownInterruptUpdate(c)
    \/ \E c \in DOMAIN shutdownPc : ShutdownInterruptSub(c)

NavSpec == NavInit /\ [][NavNext]_vars

\* The scheduler runs the update fiber and the subscription fiber whenever they
\* can run; the host need not ever call shutdown
NavFairSpec ==
    /\ NavSpec
    /\ WF_vars(UpdCheck \/ UpdTake \/ NavUpdGet \/ NavUpdSet \/ NavUpdProcessCmd)
    /\ WF_vars(SubStart \/ SubPull \/ NavSubCancel \/ NavSubActivate \/ NavSubEmit)

-----------------------------------------------------------------------------
(* useProgram: the React hook made by makeUseProgram.  The component renders *)
(* first and is handed { model, dispatch }; its effect then forks the setup  *)
(* fiber, which creates the program, stores it and its dispatch in the refs  *)
(* and drains model$ into setModel; the cleanup of the effect forks the      *)
(* shutdown of the program and the interruption of the setup fiber.  The     *)
(* component (a child's effect, an event handler, a callback that outlives   *)
(* the component) calls the returned dispatch at any time after the render.  *)

\* The hook after the first render: dispatchRef = useRef(() => {}),
\* programRef = useRef(null), the effect not yet run
Rendered ==
    [pc |-> "rendered", dispatchRef |-> "noop", programRef |-> "null",
     unmounted |-> FALSE, interruptPc |-> "none", passed |-> << >>]

HookInit ==
    /\ app = "initcmd"
    /\ given = << >>
    /\ modelRef = init(app)[1]
    /\ msgQueue = << >>
    /\ shutdownRef = FALSE
    /\ cmdFibers = << >>
    /\ updateFiber = UpdLocals("unforked", NoEntry, NoModel, NoModel, none)
    /\ subFiber = [pc |-> "unforked", inbox |-> << >>, last |-> NoModel, pending |-> NoModel]
    /\ activeSubs = {}
    /\ listeners = 0
    /\ observers = [o \in Observers(app) |->
                      [status |-> "idle", inbox |-> << >>, received |-> << >>, since |-> 0]]
    /\ shutdownPc = << >>
    /\ peer = NoPeer
    /\ hook = Rendered
    /\ hist = [dispatched |-> << >>, enqueued |-> << >>, calls |-> << >>,
               cell |-> << init(app)[1] >>, handed |-> << >>, subLog |-> << >>,
               registered |-> {}, disposed |-> EmptyBag, closedAt |-> -1, subFailedAt |-> -1]

\* useEffect(() => { ...; const fiber = Runtime.runFork(runtime)(setup);
\* fiberRef.current = fiber; ... }, [])
HookEffect ==
    /\ hook.pc = "rendered"
    /\ hook' = [hook EXCEPT !.pc = "effect"]
    /\ UNCHANGED <<app, given, peer, modelRef, msgQueue, shutdownRef, updateFiber, cmdFibers,
                   subFiber, activeSubs, listeners, observers, shutdownPc, hist>>

\* setup: const prog = yield* Platform.program(init, update, subscriptions);
\* programRef.current = prog; dispatchRef.current = prog.dispatch; then the
\* drain of prog.model$ subscribes to the cell
HookSetup ==
    /\ hook.pc = "effect"
    /\ hook' = [hook EXCEPT !.pc = "running", !.dispatchRef = "prog", !.programRef = "prog"]
    /\ cmdFibers' = << init(app)[2] >>
    /\ updateFiber' = [updateFiber EXCEPT !.pc = "check"]
    /\ subFiber' = [subFiber EXCEPT !.pc = "forked"]
    /\ observers' = [o \in DOMAIN observers |->
                       [status |-> "live", inbox |-> << modelRef >>, received |-> << >>,
                        since |-> Len(hist.cell)]]
    /\ hist' = [hist EXCEPT !.handed = << init(app)[2] >>]
    /\ UNCHANGED <<app, given, peer, modelRef, msgQueue, shutdownRef,
                   activeSubs, listeners, shutdownPc>>

\* const dispatch = (msg) => { dispatchRef.current(msg) }: the no-op the ref
\* was made with, or prog.dispatch once setup has stored it
HookDispatch(msg) ==
    /\ Len(hook.passed) < MaxDispatch
    /\ hook' = [hook EXCEPT !.passed = Append(@, msg)]
    /\ IF hook.dispatchRef = "noop"
       THEN UNCHANGED <<msgQueue, hist>>
       ELSE Offer(msg, "dispatch", -1)
    /\ UNCHANGED <<app, given, peer, modelRef, shutdownRef, updateFiber, cmdFibers, subFiber,
                   activeSubs, listeners, observers, shutdownPc>>

\* The cleanup of the effect: if (programRef.current) runFork(shutdown);
\* if (fiberRef.current) runFork(Fiber.interrupt(fiberRef.current))
HookCleanup ==
    /\ hook.pc \in {"effect", "running"}
    /\ ~hook.unmounted
    /\ hook' = [hook EXCEPT !.unmounted = TRUE, !.interruptPc = "forked"]
    /\ shutdownPc' = IF hook.programRef = "prog" THEN [c \in {1} |-> "idle"] ELSE shutdownPc
    /\ UNCHANGED <<app, given, peer, modelRef, msgQueue, shutdownRef, updateFiber, cmdFibers,
                   subFiber, activeSubs, listeners, observers, hist>>

\* The fiber forked by the cleanup: Fiber.interrupt(setup fiber).  A setup that
\* has not run never runs; one that is draining model$ ends, and Effect.scoped
\* closes its scope, which interrupts every fiber program() forked into it
HookInterrupt ==
    /\ hook.interruptPc = "forked"
    /\ IF hook.pc = "effect"
       THEN /\ hook' = [hook EXCEPT !.interruptPc = "done", !.pc = "cancelled"]
            /\ UNCHANGED <<updateFiber, cmdFibers, subFiber, activeSubs, listeners,
                           observers, hist>>
       ELSE /\ hook' = [hook EXCEPT !.interruptPc = "done"]
            /\ observers' = [o \in DOMAIN observers |->
                               [observers[o] EXCEPT !.status = "ended", !.inbox = << >>]]
            /\ updateFiber' = [updateFiber EXCEPT !.pc = "interrupted"]
            /\ cmdFibers' = [i \in DOMAIN cmdFibers |-> none]
            /\ subFiber' = IF subFiber.pc = "failed" THEN subFiber
                           ELSE [subFiber EXCEPT !.pc = "interrupted", !.inbox = << >>,
                                                 !.pending = NoModel]
            /\ activeSubs' = {}
            /\ listeners' = listeners - RegisteredBy(activeSubs)
            /\ hist' = [hist EXCEPT !.subLog = IF activeSubs = {} THEN @
                                               ELSE Append(@, SubEvent("cancel", Sources(activeSubs))),
                                    !.disposed = @ (+) SetToBag(Registrants(activeSubs))]
    /\ UNCHANGED <<app, given, peer, modelRef, msgQueue, shutdownRef, shutdownPc>>

HookNext ==
    \/ HookEffect
    \/ HookSetup
    \/ \E msg \in Dispatchable(app) : HookDispatch(msg)
    \/ HookCleanup
    \/ HookInterrupt
    \/ \E o \in DOMAIN observers : Deliver(o)
    \/ \E i \in DOMAIN cmdFibers : CmdFiberStep(i)
    \/ UpdCheck
    \/ UpdTake
    \/ UpdGet
    \/ UpdSet
    \/ UpdProcessCmd
    \/ SubStart
    \/ SubPull
    \/ SubActivate
    \/ \E c \in DOMAIN shutdownPc : ShutdownSet(c)
    \/ \E c \in DOMAIN shutdownPc : ShutdownInterruptUpdate(c)
    \/ \E c \in DOMAIN shutdownPc : ShutdownInterruptSub(c)

HookSpec == HookInit /\ [][HookNext]_vars

-----------------------------------------------------------------------------
(* The two runtimes side by side.  The host creates the counter twice, once  *)
(* with the program() above and once with the earlier program() that keeps   *)
(* the model in a Ref (src/Platform.ts), and dispatches the same messages in *)
(* the same order to both.  The earlier program is kept in `peer`: its       *)
(* dispatch forks the offer (Effect.runFork), and the forked fibers run in   *)
(* the order they were forked; its update loop reads and writes the Ref.     *)

EquivInit ==
    /\ app = "counter"
    /\ given = << >>
    /\ modelRef = init(app)[1]
    /\ msgQueue = << >>
    /\ shutdownRef = FALSE
    /\ cmdFibers = << init(app)[2] >>
    /\ updateFiber = UpdLocals("check", NoEntry, NoModel, NoModel, none)
    /\ subFiber = [pc |-> "forked", inbox |-> << >>, last |-> NoModel, pending |-> NoModel]
    /\ activeSubs = {}
    /\ listeners = 0
    /\ observers = << >>
    /\ shutdownPc = << >>
    /\ hook = NoHook
    /\ hist = [dispatched |-> << >>, enqueued |-> << >>, calls |-> << >>,
               cell |-> << init(app)[1] >>, handed |-> << init(app)[2] >>, subLog |-> << >>,
               registered |-> {}, disposed |-> EmptyBag, closedAt |-> -1, subFailedAt |-> -1]
    /\ peer = [pc |-> "check", modelRef |-> init(app)[1], msgQueue |-> << >>,
               shutdownRef |-> FALSE, forked |-> << >>, msg |-> "-", newModel |-> NoModel,
               dispatched |-> << >>, calls |-> << >>, cell |-> << init(app)[1] >>]

\* The host passes to the earlier program the message it passed to the other:
\* dispatch = msg => { Effect.runFork(Queue.offer(msgQueue, msg)) }
OldDispatch ==
    /\ Len(peer.dispatched) < Len(hist.dispatched)
    /\ LET msg == hist.dispatched[Len(peer.dispatched) + 1]
       IN  peer' = [peer EXCEPT !.forked = Append(@, msg), !.dispatched = Append(@, msg)]
    /\ UNCHANGED own

\* Forked offers that run in any order
OldOffer_AnyOrder ==
    /\ peer.forked # << >>
    /\ \E i \in DOMAIN peer.forked :
          peer' = [peer EXCEPT !.msgQueue = Append(@, peer.forked[i]),
                               !.forked = SubSeq(@, 1, i - 1) \o SubSeq(@, i + 1, Len(@))]
    /\ UNCHANGED own

\* The fiber forked by the earlier dispatch runs Queue.offer(msgQueue, msg)
OldOffer ==
    /\ peer.forked # << >>
    /\ peer' = [peer EXCEPT !.msgQueue = Append(@, Head(peer.forked)), !.forked = Tail(@)]
    /\ UNCHANGED own

\* earlier updateLoop: const isShutdown = yield* Ref.get(shutdownRef)
OldUpdCheck ==
    /\ peer.pc = "check"
    /\ peer' = [peer EXCEPT !.pc = IF peer.shutdownRef THEN "interrupted" ELSE "take"]
    /\ UNCHANGED own

\* earlier updateLoop: const msg = yield* Queue.take(msgQueue)
OldUpdTake ==
    /\ peer.pc = "take"
    /\ peer.msgQueue # << >>
    /\ peer' = [peer EXCEPT !.pc = "get", !.msg = Head(peer.msgQueue), !.msgQueue = Tail(@)]
    /\ UNCHANGED own

\* earlier updateLoop: const currentModel = yield* Ref.get(modelRef)
\*                     const [newModel, cmd] = update(msg, currentModel)
OldUpdGet ==
    /\ peer.pc = "get"
    /\ peer' = [peer EXCEPT !.pc = "set",
                            !.newModel = update(app, peer.msg, peer.modelRef,
                                                Len(peer.calls) + 1)[1],
                            !.calls = Append(@, peer.msg)]
    /\ UNCHANGED own

\* earlier updateLoop: yield* Ref.set(modelRef, newModel), then processCmd of
\* the Cmd.none the counter returns, which offers nothing
OldUpdSet ==
    /\ peer.pc = "set"
    /\ peer' = [peer EXCEPT !.pc = "check", !.modelRef = peer.newModel,
                            !.cell = Append(@, peer.newModel), !.newModel = NoModel,
                            !.msg = "-"]
    /\ UNCHANGED own

EquivNext ==
    \/ \E msg \in Dispatchable(app) : dispatch(msg)
    \/ UpdCheck
    \/ UpdTake
    \/ UpdGet
    \/ UpdSet
    \/ UpdProcessCmd
    \/ OldDispatch
    \/ OldOffer
    \/ OldUpdCheck
    \/ OldUpdTake
    \/ OldUpdGet
    \/ OldUpdSet

EquivSpec == EquivInit /\ [][EquivNext]_vars

-----------------------------------------------------------------------------
(* Properties *)

\* The messages collected from the commands run so far, in order of arrival
Collected == [i \in 1..Len(hist.enqueued) |-> hist.enqueued[i].msg]

\* C6: batch fairness: run to completion, batch([c1..cn]) with n >= 2 has
\* emitted exactly the messages its children emit alone, as a multiset: none
\* lost, none duplicated; before completion it has emitted no more than that.
C6_BatchFairness ==
    Len(given) >= 2 =>
        /\ SeqToBag(Collected) \sqsubseteq MessagesOfAll(given)
        /\ Finished(cmdFibers[1]) => SeqToBag(Collected) = MessagesOfAll(given)

C6_Witness ==
    /\ given = << of("A"), of("B") >>
    /\ Finished(cmdFibers[1])
    /\ Collected = << "B", "A" >>

\* An application whose only messages are the dispatched ones: no initial
\* command, no command returned by update, no subscription
ReturnsNoCommands(a) ==
    /\ init(a)[2] = none
    /\ subscriptions(a, init(a)[1]) = none
    /\ \A msg \in Dispatchable(a) : update(a, msg, init(a)[1], 1)[2] = none

\* C1: single consumer: when update returns no commands, the model eventually
\* equals foldl update m0 over the dispatched messages and stays so, whatever
\* the interleaving of dispatch with the update loop (until shutdown is called).
C1_FoldOfDispatched ==
    ReturnsNoCommands(app) =>
        <>[](shutdownRef \/ modelRef = Foldl(app, init(app)[1], hist.dispatched, 1))

C1_Witness ==
    /\ ReturnsNoCommands(app)
    /\ ~shutdownRef
    /\ hist.dispatched = << "Inc", "Set" >>
    /\ msgQueue = << >>
    /\ updateFiber.pc = "take"
    /\ modelRef = Foldl(app, init(app)[1], hist.dispatched, 1)
    /\ modelRef # Foldl(app, init(app)[1], << "Set", "Inc" >>, 1)

\* The messages the commands handed to the runtime have put in the queue
FromCommands == {i \in 1..Len(hist.enqueued) : hist.enqueued[i].src = "cmd"}

\* Every command handed to the runtime has run to its end, each of its messages
\* was enqueued, and each was passed to update exactly once
CommandsDelivered ==
    /\ Len(hist.handed) = Len(hist.calls) + 1
    /\ Len(cmdFibers) = Len(hist.handed)
    /\ \A i \in DOMAIN cmdFibers : Finished(cmdFibers[i])
    /\ SeqToBag([i \in 1..Cardinality(FromCommands) |->
                   hist.enqueued[CHOOSE k \in FromCommands :
                       Cardinality({j \in FromCommands : j < k}) = i - 1].msg])
         = MessagesOfAll(hist.handed)
    /\ \A i \in FromCommands :
          Cardinality({j \in 1..Len(hist.calls) : hist.calls[j].entry = hist.enqueued[i]}) = 1
    /\ \A j \in 1..Len(hist.calls) :
          (hist.calls[j].entry.msg = "Go" /\ hist.calls[j].result # hist.calls[j].model) =>
              \A m \in {"A", "B"} : \E k \in 1..Len(hist.calls) : hist.calls[k].entry.msg = m

\* C7: every message emitted by a command handed to the runtime (the initial
\* command, a command returned by update) is enqueued and, unless shutdown is
\* called, is eventually passed to update exactly once; batch([of(A), of(B)])
\* returned by update makes both A and B reach update.
C7_CommandMessagesReachUpdate == <>[](shutdownRef \/ CommandsDelivered)

C7_Witness ==
    /\ ~shutdownRef
    /\ CommandsDelivered
    /\ \E j \in 1..Len(hist.calls) : hist.calls[j].entry.msg = "Go"
    /\ \E j \in 1..Len(hist.calls) : hist.calls[j].entry.msg = "A"
    /\ \E j \in 1..Len(hist.calls) : hist.calls[j].entry.msg = "B"

\* The messages passed to update so far, in order
Processed == [i \in 1..Len(hist.calls) |-> hist.calls[i].entry]

\* C2: the update loop is the only consumer of the queue: the i-th message
\* passed to update is the i-th message that was enqueued, so messages are
\* processed one at a time in FIFO order and none is processed twice.
C2_FifoSingleConsumer ==
    /\ IsPrefix(Processed, hist.enqueued)
    /\ \A i \in 1..Len(msgQueue) :
          msgQueue[i] = hist.enqueued[Len(hist.enqueued) - Len(msgQueue) + i]

C2_Witness ==
    /\ Len(hist.calls) >= 2
    /\ hist.calls[1].entry.src = "cmd"
    /\ hist.calls[2].entry.src = "dispatch"
    /\ msgQueue # << >>

\* C3: no stale model: the model argument of every update call is the model
\* written by the preceding update call, the initial model for the first.
C3_NoStaleModel ==
    \A i \in 1..Len(hist.calls) :
        hist.calls[i].model = IF i = 1 THEN init(app)[1] ELSE hist.calls[i - 1].result

C3_Witness ==
    /\ Len(hist.calls) >= 2
    /\ hist.calls[2].model # init(app)[1]
    /\ hist.calls[2].result # hist.calls[2].model

\* The models whose subscription has been cancelled
Cancelled == UNION {hist.subLog[i].ids : i \in {j \in 1..Len(hist.subLog) : hist.subLog[j].ev = "cancel"}}

\* Every subscription started before position k of the log was cancelled before k
CancelledBefore(k) ==
    \A j \in 1..(k - 1) :
        hist.subLog[j].ev = "activate" =>
            \E c \in (j + 1)..(k - 1) :
                hist.subLog[c].ev = "cancel" /\ hist.subLog[j].ids \subseteq hist.subLog[c].ids

C5_OneActiveSub ==
    /\ Cardinality(activeSubs) <= 1
    /\ listeners <= 1
    /\ listeners = RegisteredBy(activeSubs)

C5_Witness ==
    /\ Cardinality(activeSubs) = 1
    /\ listeners = 1
    /\ \E act \in activeSubs : act.model # init(app)[1]

\* What a consumer of model$ has been handed so far: delivered or waiting
Seen(o) == observers[o].received \o observers[o].inbox

\* C8: reactivity: a live consumer of model$ is handed every model written to
\* the cell since it subscribed, in write order, none skipped, none reordered.
C8_Reactivity ==
    \A o \in DOMAIN observers :
        observers[o].status = "live" =>
            Seen(o) = SubSeq(hist.cell, observers[o].since, Len(hist.cell))

C8_Witness ==
    \E o \in DOMAIN observers :
        /\ observers[o].status = "live"
        /\ Len(observers[o].received) >= 3
        /\ observers[o].received[2] # observers[o].received[3]

\* C9: the first element model$ delivers is the model the cell held when the
\* consumer subscribed, however late it subscribes.
C9_CurrentValueFirst ==
    \A o \in DOMAIN observers :
        (observers[o].status = "live" /\ observers[o].received # << >>) =>
            observers[o].received[1] = hist.cell[observers[o].since]

C9_Witness ==
    \E o \in DOMAIN observers :
        /\ observers[o].status = "live"
        /\ observers[o].since >= 2
        /\ observers[o].received # << >>
        /\ observers[o].received[1] # init(app)[1]

\* C10: after the current value, model$ emits only distinct writes: a consumer
\* is never handed the same model (by reference) twice in a row.
C10_OnlyDistinctWrites ==
    \A o \in DOMAIN observers :
        observers[o].status = "live" =>
            \A i \in 1..(Len(Seen(o)) - 1) : Seen(o)[i] # Seen(o)[i + 1]

\* The program after shutdown: the flag is set and both loops have ended
Terminated ==
    /\ shutdownRef
    /\ updateFiber.pc = "interrupted"
    /\ subFiber.pc \in {"interrupted", "failed"}
    /\ activeSubs = {}

\* C11: shutdown is idempotent: a step of shutdown never undoes the flag, never
\* touches the model, the queue, the commands or the consumers, leaves a loop
\* that has already ended (and the disposers already run) as it is, and once one
\* shutdown has completed a further shutdown, run after it or concurrently with
\* it, changes nothing at all: the program stays in the state one shutdown left.
C11_ShutdownIdempotent ==
    /\ [](ShutdownDone => Terminated)
    /\ [][shutdownPc' # shutdownPc =>
            /\ shutdownRef'
            /\ UNCHANGED <<modelRef, msgQueue, cmdFibers, observers>>
            /\ updateFiber.pc = "interrupted" => updateFiber' = updateFiber
            /\ subFiber.pc \in {"interrupted", "failed"} =>
                  /\ UNCHANGED <<subFiber, activeSubs, listeners>>
                  /\ hist'.disposed = hist.disposed
            /\ ShutdownDone =>
                  UNCHANGED <<modelRef, msgQueue, shutdownRef, updateFiber, cmdFibers,
                              subFiber, activeSubs, listeners, observers, hist>>]_vars

C11_Witness ==
    /\ Cardinality(DOMAIN shutdownPc) = 2
    /\ \A c \in DOMAIN shutdownPc : shutdownPc[c] = "done"
    /\ hist.registered # {}
    /\ BagToSet(hist.disposed) = hist.registered

\* C12: dispatch after shutdown has completed is a no-op: the message is never
\* passed to update, and from then on the model is never written again.
C12_DispatchAfterShutdown ==
    /\ [](hist.closedAt # -1 =>
            \A j \in 1..Len(hist.calls) : hist.calls[j].entry.n <= hist.closedAt)
    /\ [][ShutdownDone => (modelRef' = modelRef /\ hist'.calls = hist.calls
                            /\ hist'.cell = hist.cell)]_vars

C12_Witness ==
    /\ ShutdownDone
    /\ \E i \in 1..Len(msgQueue) :
          msgQueue[i].src = "dispatch" /\ msgQueue[i].n > hist.closedAt

\* C15: the disposer of a fromCallback activation runs exactly once when the
\* activation is cancelled (by a switch or by shutdown): not at all while it is
\* active, once after it was cancelled, never twice.
C15_DisposerExactlyOnce ==
    /\ BagToSet(hist.disposed) \subseteq hist.registered
    /\ \A id \in hist.registered :
          CopiesIn(id, hist.disposed) = IF id \in Registrants(activeSubs) THEN 0 ELSE 1

C15_Witness ==
    /\ ShutdownDone
    /\ Cardinality(hist.registered) >= 2
    /\ \A id \in hist.registered : CopiesIn(id, hist.disposed) = 1
    /\ Len(hist.subLog) >= 4
    /\ hist.subLog[2].ev = "cancel"
    /\ hist.subLog[3].ev = "activate"

\* C16: disposer liveness: when shutdown has completed, every fromCallback
\* subscription the program activated has been disposed: no listener is left.
C16_DisposersRunByShutdown ==
    ShutdownDone =>
        /\ listeners = 0
        /\ \A id \in hist.registered : CopiesIn(id, hist.disposed) >= 1

C16_Witness ==
    /\ ShutdownDone
    /\ hist.registered # {}
    /\ hist.subLog # << >>
    /\ Last(hist.subLog).ev = "cancel"
    /\ listeners = 0

\* C13: once shutdown has completed model$ is closed: a run/runWith drain has
\* terminated as soon as it has delivered what was published to it, so no
\* consumer is left subscribed with nothing more to deliver.
C13_ModelStreamCloses ==
    ShutdownDone =>
        \A o \in DOMAIN observers :
            observers[o].status = "live" => observers[o].inbox # << >>

\* C14: after shutdown has completed no command fiber started by the program is
\* still running, and no message offered after that point comes from a command.
C14_CommandsInterrupted ==
    ShutdownDone =>
        /\ \A i \in DOMAIN cmdFibers : Finished(cmdFibers[i])
        /\ \A i \in 1..Len(hist.enqueued) :
              hist.enqueued[i].n > hist.closedAt => hist.enqueued[i].src # "cmd"

\* C17: a command error is not swallowed: when a command run by the runtime has
\* failed, a run/runWith drain of model$ has failed with it as soon as it has
\* delivered what was published to it, so no consumer is left running.
C17_CmdErrorSurfaces ==
    (\E i \in DOMAIN cmdFibers : cmdFibers[i].tag = "failed") =>
        \A o \in DOMAIN observers :
            observers[o].status = "live" => observers[o].inbox # << >>

\* C18: a failing subscription ends the subscription loop: from then on the
\* loop stays ended, no subscription is active and none is activated again,
\* whatever models are written afterwards.
C18_FailedSubEndsLoop ==
    /\ [](\A k \in 1..Len(hist.subLog) :
             hist.subLog[k].ev = "fail" =>
                 (k = Len(hist.subLog) /\ activeSubs = {} /\ subFiber.pc = "failed"))
    /\ [][subFiber.pc = "failed" =>
            /\ subFiber'.pc = "failed"
            /\ activeSubs' = {}
            /\ hist'.subLog = hist.subLog]_vars

C18_Witness ==
    /\ subFiber.pc = "failed"
    /\ hist.subFailedAt # -1
    /\ Len(hist.cell) > hist.subFailedAt
    /\ modelRef # init(app)[1]
    /\ Last(hist.subLog).ev = "fail"

\* The message the bridge is to produce for a task, stated from its result
Expected(b) ==
    CASE b.kind = "perform"     -> GotNumber[b.task.a]
      [] b.kind = "attempt"     -> FromEither[IF b.task.tag = "succeed" THEN right(b.task.a)
                                                                       ELSE left(b.task.e)]
      [] b.kind = "attemptWith" -> IF b.task.tag = "succeed" THEN Handlers.onSuccess[b.task.a]
                                                             ELSE Handlers.onFailure[b.task.e]

\* The messages commands have put in the queue so far, in order
FromCmd == SelectSeq(hist.enqueued, LAMBDA en : en.src = "cmd")

\* The bridged command has been run by processCmd
TaskRan == cmdFibers[1].tag \notin {"succeed", "fail"}

C21_ConstructionDoesNotWait ==
    <>[](/\ Returned
         /\ msgQueue = << >>
         /\ updateFiber.pc = "take"
         /\ Len(hist.calls) = Len(hist.enqueued))

C21_Witness ==
    /\ app = "hanging"
    /\ Returned
    /\ Pending(cmdFibers[1])
    /\ Len(hist.dispatched) = MaxDispatch
    /\ Len(hist.calls) = Len(hist.dispatched)
    /\ modelRef.count = MaxDispatch

\* C22: the subscription derived from the initial model is activated on
\* startup: the first subscription the subscription loop evaluates, whatever has
\* run before it, is the one derived from the initial model.
C22_InitialSubActivated ==
    hist.subLog # << >> => hist.subLog[1].ids = {init(app)[1].id}

\* The models (by identity) for which a subscription was started
Activated ==
    UNION {hist.subLog[k].ids : k \in {j \in 1..Len(hist.subLog) : hist.subLog[j].ev = "activate"}}

\* C23: Cmd and Sub are lazy descriptions: a command that was built but not
\* handed to the runtime has emitted nothing (the messages commands have put in
\* the queue plus those still to come are exactly the messages of the commands
\* handed over, each execution of the same value counted on its own), register
\* has been called once for each activation of a fromCallback subscription and
\* not before (one listener per running activation, each execution of the same
\* value registering its own), and a listener appears only in the step that
\* activates a subscription.
C23_LazyDescriptions ==
    /\ [](/\ SeqToBag([i \in 1..Len(FromCmd) |-> FromCmd[i].msg]) (+) MessagesOfAll(cmdFibers)
              = MessagesOfAll(hist.handed)
          /\ listeners = RegisteredBy(activeSubs)
          /\ app = "users" => hist.registered = Activated)
    /\ [][listeners' > listeners =>
            /\ listeners' = listeners + 1
            /\ Len(hist'.subLog) = Len(hist.subLog) + 1
            /\ Last(hist'.subLog).ev = "activate"]_vars

C23_Witness ==
    /\ app = "users"
    /\ Len(hist.handed) >= 3
    /\ hist.handed[1] = fetchUsersCmd
    /\ hist.handed[2] = fetchUsersCmd
    /\ Len(FromCmd) = 2
    /\ Cardinality(hist.registered) >= 2
    /\ listeners = 1

\* Every sequence of messages a finite stream can emit when run to its end
RECURSIVE Runs(_)
Runs(s) ==
    IF Emits(s) = {} THEN {<< >>}
    ELSE UNION { { << e[1] >> \o r : r \in Runs(e[2]) } : e \in Emits(s) }

\* The messages collected from stream i so far, in order
Out(i) ==
    LET mine == SelectSeq(hist.enqueued, LAMBDA en : en.from = i)
    IN  [k \in 1..Len(mine) |-> mine[k].msg]

\* C24: map law: map(f)(map(g)(c)) and map(f after g)(c) emit the same message
\* sequences, namely f(g(x)) for the messages x of c, as many and in the order
\* c emits them (for a batch: in one of the orders c can emit them).
C24_MapLaw ==
    \A i \in DOMAIN cmdFibers :
        \E r \in Runs(given[1].c) :
            LET fg == [k \in 1..Len(r) |-> given[1].f[given[1].g[r[k]]]]
            IN  /\ IsPrefix(Out(i), fg)
                /\ Finished(cmdFibers[i]) => Out(i) = fg

C24_Witness ==
    /\ given[1].c = fromIterable(<< "B", "A", "A" >>)
    /\ given[1].g = [x \in {"A", "B"} |-> IF x = "A" THEN "X" ELSE "Y"]
    /\ given[1].f = [x \in {"X", "Y"} |-> IF x = "X" THEN "P" ELSE "Q"]
    /\ \A i \in DOMAIN cmdFibers : Finished(cmdFibers[i])
    /\ Out(1) = << "Q", "P", "P" >>
    /\ Out(2) = << "Q", "P", "P" >>

\* C25: batch identities: batch([]) is none and emits nothing, batch([c]) is
\* c itself, and none is the identity of batch: batch([none, c]) and
\* batch([c, none]) emit exactly the messages of c, in the order c emits them.
C25_BatchIdentities ==
    /\ given = << >> => (hist.handed[1] = none /\ Collected = << >>)
    /\ Len(given) = 1 => hist.handed[1] = given[1]
    /\ (Len(given) = 2 /\ none \in {given[1], given[2]}) =>
          LET c == IF given[1] = none THEN given[2] ELSE given[1]
          IN  \E r \in Runs(c) :
                  /\ IsPrefix(Collected, r)
                  /\ Finished(cmdFibers[1]) => Collected = r

C25_Witness ==
    /\ given = << none, fromIterable(<< "A", "B" >>) >>
    /\ Finished(cmdFibers[1])
    /\ Collected = << "A", "B" >>

\* C26: programWithFlags(init, update, subscriptions)(flags) behaves as
\* program(init(flags), update, subscriptions): the cell starts with
\* init(flags)[0], which is the first value of model$, the command handed to the
\* runtime first is init(flags)[1], and the messages passed to update are folded
\* from init(flags)[0].
C26_FlagsAsProgram ==
    app = "flags" =>
        LET i == initWithFlags[given[1]]
        IN  /\ hist.cell[1] = i[1]
            /\ \A o \in DOMAIN observers :
                  (observers[o].since = 1 /\ observers[o].received # << >>) =>
                      observers[o].received[1] = i[1]
            /\ hist.handed # << >> => hist.handed[1] = i[2]
            /\ \A j \in 1..Len(hist.calls) :
                  /\ hist.calls[j].model = IF j = 1 THEN i[1] ELSE hist.calls[j - 1].result
                  /\ hist.calls[j].result =
                        update(app, hist.calls[j].entry.msg, hist.calls[j].model, j)[1]
            /\ Len(hist.cell) = Len(hist.calls) + 1 =>
                  modelRef = Foldl(app, i[1], [j \in 1..Len(hist.calls) |-> hist.calls[j].entry.msg], 1)

C26_Witness ==
    /\ app = "flags"
    /\ given[1].startValue = 100
    /\ \E o \in DOMAIN observers :
          /\ observers[o].since = 1
          /\ Len(observers[o].received) >= 2
          /\ observers[o].received[1].count = 100
    /\ Len(hist.calls) = MaxDispatch
    /\ modelRef.count = 100 + MaxDispatch
    /\ updateFiber.pc = "take"

\* C27: the view adapter is a projection of model$: the k-th element a
\* consumer of html$ is handed is view(mk)(dispatch) for the k-th model mk its
\* subscription to the cell delivers (the current one, then every write, none
\* skipped or reordered), and the dispatch inside every rendered view is the
\* one dispatch of the program.
C27_ViewIsProjection ==
    \A o \in DOMAIN observers \cap {"html"} :
        observers[o].status = "live" =>
            /\ Len(observers[o].received) + Len(observers[o].inbox)
                  = Len(hist.cell) - observers[o].since + 1
            /\ \A k \in 1..Len(observers[o].received) :
                  /\ observers[o].received[k].count = hist.cell[observers[o].since + k - 1].count
                  /\ observers[o].received[k].onClick = baseDispatch
                  /\ observers[o].received[k].onClick = observers[o].received[1].onClick

C27_Witness ==
    /\ app = "view"
    /\ observers["html"].status = "live"
    /\ Len(observers["html"].received) = MaxDispatch + 1
    /\ observers["html"].received[1].count = 0
    /\ Last(observers["html"].received).count = MaxDispatch

\* C28: two programs do not interfere: a step of the first program (dispatch,
\* a command, its update loop, its shutdown) leaves the model, the queue, the
\* flag and the fibers of the second as they are, and the other way round; so
\* the models the second program writes are the fold of update over its own
\* dispatched messages from its own initial model, whatever the first does.
C28_NoInterference ==
    /\ [][(own' # own => peer' = peer) /\ (peer' # peer => own' = own)]_vars
    /\ [](/\ IsPrefix(peer.calls, peer.dispatched)
          /\ peer.msgQueue = SubSeq(peer.dispatched, Len(peer.dispatched) - Len(peer.msgQueue) + 1,
                                    Len(peer.dispatched))
          /\ Len(peer.cell) \in {Len(peer.calls), Len(peer.calls) + 1}
          /\ \A k \in 1..Len(peer.cell) :
                peer.cell[k] = Foldl("counter", init("counter")[1], SubSeq(peer.calls, 1, k - 1), 1)
          /\ peer.modelRef = Last(peer.cell)
          /\ peer.shutdownRef = (peer.shutdownPc # "idle")
          /\ (peer.pc = "interrupted" => peer.shutdownRef))

C28_Witness ==
    /\ ShutdownDone
    /\ Len(hist.calls) >= 2
    /\ modelRef # init(app)[1]
    /\ ~peer.shutdownRef
    /\ peer.pc = "take"
    /\ Len(peer.calls) = MaxPeerDispatch
    /\ peer.modelRef # init("counter")[1]
    /\ peer.modelRef # modelRef

\* The messages dispatch has put in the queue so far, in order of arrival
FromDispatch ==
    LET mine == SelectSeq(hist.enqueued, LAMBDA en : en.src = "dispatch")
    IN  [k \in 1..Len(mine) |-> mine[k].msg]

\* C29: dispatch is synchronous and does not suspend: the step in which
\* dispatch(msg) is called and returns leaves msg as the newest element of the
\* queue and runs no update; the messages of successive dispatch calls are in
\* the queue in call order; and dispatch can always be called, whatever the
\* update loop is doing.
C29_DispatchSynchronous ==
    /\ [][hist'.dispatched # hist.dispatched =>
            /\ msgQueue' = Append(msgQueue, Entry(Last(hist'.dispatched), "dispatch", -1,
                                                  Len(hist.enqueued) + 1))
            /\ hist'.calls = hist.calls
            /\ UNCHANGED <<modelRef, updateFiber>>]_vars
    /\ [](FromDispatch = hist.dispatched)
    /\ [](Len(hist.dispatched) < MaxDispatch => ENABLED (\E msg \in Dispatchable(app) : dispatch(msg)))

C29_Witness ==
    /\ hist.dispatched = << "Set", "Inc" >>
    /\ Len(msgQueue) = 2
    /\ msgQueue[1].msg = "Set"
    /\ msgQueue[2].msg = "Inc"
    /\ hist.calls = << >>
    /\ updateFiber.pc = "take"

\* C30: a throw inside update fails the program: once the update loop has
\* died the subscription loop has ended too and every run/runWith drain of
\* model$ has ended as soon as it has delivered what was published to it; the
\* program is not left alive with the old model, accepting messages it will
\* never process.
C30_UpdateThrowFailsProgram ==
    updateFiber.pc = "died" =>
        /\ subFiber.pc \in {"interrupted", "failed"}
        /\ \A o \in DOMAIN observers :
              observers[o].status = "live" => observers[o].inbox # << >>

\* The step is one of the update loop
UpdateLoopStep == updateFiber' # updateFiber

\* C31: the model cell is single-writer: the cell changes only in the step of
\* the update loop that sets it (to the model update returned); a step of
\* dispatch, of a command fiber, of the subscription loop (activation,
\* cancellation, emission), of a consumer of model$ or of shutdown leaves it as it
\* is.  The queue grows only by an offer of dispatch, of a command fiber or of
\* the subscription loop, never by the update loop, which only takes from it.
C31_SingleWriter ==
    /\ [](modelRef = Last(hist.cell))
    /\ [][(modelRef' # modelRef \/ hist'.cell # hist.cell) =>
            /\ updateFiber.pc = "set"
            /\ updateFiber'.pc = "processCmd"
            /\ modelRef' = updateFiber.newModel
            /\ hist'.cell = Append(hist.cell, modelRef')
            /\ hist'.dispatched = hist.dispatched
            /\ UNCHANGED <<msgQueue, cmdFibers, activeSubs, listeners, shutdownRef, shutdownPc>>
            /\ hist'.subLog = hist.subLog
            /\ \A o \in DOMAIN observers : observers'[o].status = observers[o].status]_vars
    /\ [][msgQueue' # msgQueue =>
            \/ /\ UpdateLoopStep
               /\ updateFiber.pc = "take"
               /\ msgQueue' = Tail(msgQueue)
               /\ hist'.enqueued = hist.enqueued
            \/ /\ ~UpdateLoopStep
               /\ hist'.enqueued = Append(hist.enqueued, Last(msgQueue'))
               /\ msgQueue' = Append(msgQueue, Last(msgQueue'))
               /\ LET e == Last(msgQueue')
                  IN  \/ e.src = "dispatch" /\ hist'.dispatched = Append(hist.dispatched, e.msg)
                                            /\ UNCHANGED <<cmdFibers, activeSubs>>
                      \/ e.src = "cmd" /\ cmdFibers' # cmdFibers
                                       /\ hist'.dispatched = hist.dispatched
                      \/ e.src = "sub" /\ activeSubs # {}
                                       /\ subFiber.pc \notin {"interrupted", "failed"}
                                       /\ hist'.dispatched = hist.dispatched]_vars

C31_Witness ==
    /\ app = "initcmd"
    /\ ShutdownDone
    /\ Len(hist.cell) >= 3
    /\ \E i \in 1..Len(hist.enqueued) : hist.enqueued[i].src = "cmd"
    /\ \E i \in 1..Len(hist.enqueued) : hist.enqueued[i].src = "dispatch"
    /\ hist.subLog # << >>
    /\ \E o \in DOMAIN observers : Len(observers[o].received) >= 2
    /\ modelRef # init(app)[1]

\* C32: once shutdown has completed update is never invoked again and the cell
\* is never written again, whether messages were left in the queue or are
\* offered later (the queue then only grows); the shutdown flag never goes back
\* from true to false.
C32_NoUpdateAfterShutdown ==
    /\ [][ShutdownDone =>
            /\ hist'.calls = hist.calls
            /\ hist'.cell = hist.cell
            /\ modelRef' = modelRef
            /\ updateFiber' = updateFiber
            /\ IsPrefix(msgQueue, msgQueue')]_vars
    /\ [][shutdownRef => shutdownRef']_vars
    /\ [](ShutdownDone => (shutdownRef /\ updateFiber.pc = "interrupted"))

C32_Witness ==
    /\ ShutdownDone
    /\ hist.calls # << >>
    /\ \E i \in 1..Len(msgQueue) : msgQueue[i].n <= hist.closedAt
    /\ \E i \in 1..Len(msgQueue) : msgQueue[i].n > hist.closedAt

\* A sequence of models without its consecutive duplicates (by identity)
RECURSIVE Distinct(_)
Distinct(ms) ==
    IF Len(ms) <= 1 THEN ms
    ELSE IF ms[1] = ms[2] THEN Distinct(Tail(ms))
         ELSE << ms[1] >> \o Distinct(Tail(ms))

\* The models (by identity) subscriptions was evaluated for, in order
Evaluated ==
    LET evs == SelectSeq(hist.subLog, LAMBDA x : x.ev \in {"activate", "empty"})
    IN  [k \in 1..Len(evs) |-> CHOOSE id \in evs[k].ids : TRUE]

\* The cancellations made by a switch so far (not those of shutdown or failure)
Switches ==
    Cardinality({k \in 1..(Len(hist.subLog) - 1) :
                    hist.subLog[k].ev = "cancel" /\ hist.subLog[k + 1].ev \in {"activate", "empty"}})

\* C33: the subscription loop suppresses consecutive duplicate models by
\* reference: subscriptions is evaluated once for each run of identical
\* references written to the cell, never twice in a row for the same model
\* object, and a running subscription is cancelled by a switch only to make
\* room for the subscription of a different model object; a write of the
\* identical reference neither cancels nor activates anything.
C33_DuplicateModelsSuppressed ==
    /\ \A k \in 1..(Len(Evaluated) - 1) : Evaluated[k] # Evaluated[k + 1]
    /\ \E from \in 1..Len(hist.cell) :
          LET written == SubSeq(hist.cell, from, Len(hist.cell))
          IN  IsPrefix(Evaluated, [k \in 1..Len(Distinct(written)) |-> Distinct(written)[k].id])
    /\ \A k \in 1..(Len(hist.subLog) - 1) :
          (hist.subLog[k].ev = "cancel" /\ hist.subLog[k + 1].ev \in {"activate", "empty"}) =>
              hist.subLog[k + 1].ids \cap hist.subLog[k].ids = {}
    /\ Switches < Cardinality({hist.cell[k].id : k \in 1..Len(hist.cell)})

C33_Witness ==
    /\ app = "listener"
    /\ Len(hist.calls) = 2
    /\ hist.calls[1].entry.src = "sub"
    /\ hist.calls[2].entry.msg = "Noop"
    /\ hist.calls[2].result = hist.calls[2].model
    /\ Len(hist.cell) = 3
    /\ hist.cell[3] = hist.cell[2]
    /\ subFiber.pc = "pull"
    /\ subFiber.inbox = << >>
    /\ Evaluated = << hist.cell[1].id, hist.cell[2].id >>
    /\ Switches = 1
    /\ listeners = 1

\* The Tick messages passed to update so far
TicksProcessed ==
    Cardinality({j \in 1..Len(hist.calls) : hist.calls[j].entry.msg = "Tick"})

\* With a delay between two messages the first Tick switches the timer off
\* before the second is due
OneTickWhenSpaced == given[1] > 0 => TicksProcessed <= 1

Taken == Len(hist.enqueued) - Len(msgQueue)

\* C35: processing of a taken message is atomic with respect to shutdown: a
\* message removed from the queue has been passed to update, or is held by the
\* running update loop that is about to do so; and the command update returned
\* for a model written to the cell has been handed to processCmd, or the running
\* update loop is about to hand it over.
C35_ProcessingAtomic ==
    /\ Taken = Len(hist.calls) + (IF updateFiber.pc = "get" THEN 1 ELSE 0)
    /\ Len(hist.cell) = Len(hist.handed) + (IF updateFiber.pc = "processCmd" THEN 1 ELSE 0)

\* C36: the Navigation example quiesces: with no external event, from some
\* point on update is not called any more and the subscription is not
\* activated any more.
C36_NavigationQuiesces ==
    <>[][/\ ~(updateFiber.pc = "get" /\ updateFiber'.pc = "set")
         /\ ~(subFiber.pc = "activate" /\ subFiber'.pc = "pull")]_vars

\* Once the shutdown forked by the cleanup has completed, no message reaches
\* update and the cell is not written
NoUpdateAfterCleanup ==
    [][ShutdownDone => (hist'.calls = hist.calls /\ hist'.cell = hist.cell)]_vars

\* C37: useProgram drops no message: every message passed to the dispatch the
\* hook returned has been offered to the queue of the program, also a message
\* passed between the first render and the creation of the program by the
\* setup effect; and once the cleanup has shut the program down no message
\* offered later has been passed to update.
C37_HookDeliversEveryMessage ==
    /\ Len(hist.dispatched) = Len(hook.passed)
    /\ hist.closedAt # -1 =>
          \A j \in 1..Len(hist.calls) : hist.calls[j].entry.n <= hist.closedAt

\* The models foldl update m0 passes through for the first n dispatched messages
FoldTrace(n) ==
    [k \in 1..(n + 1) |-> Foldl(app, init(app)[1], SubSeq(hist.dispatched, 1, k - 1), 1)]

\* Both programs have processed every message dispatched
BothDone ==
    /\ Len(peer.dispatched) = Len(hist.dispatched)
    /\ Len(hist.cell) = Len(hist.dispatched) + 1
    /\ Len(peer.cell) = Len(hist.dispatched) + 1

====
